---- MODULE Spec2Model ----
(***************************************************************************)
(* A model of the D-ASE reconfigurable computation lattice:                *)
(*   - UniversalNode / UniversalNodeEngine (universal_node_engine.cpp),    *)
(*     the discrete six-role node and its engine, with the global          *)
(*     g_engine and its two drivers;                                       *)
(*   - AnalogUniversalNode / AnalogCellularEngine                          *)
(*     (analog_universal_node_engine_fixed.cpp), the signal-controlled     *)
(*     four-mode node and its engine.                                      *)
(*                                                                         *)
(* Numbers.  A C++ double is a fixed-point integer in units of 1/Scale     *)
(* (1.0 is Scale); a product is truncated to that unit.  TLC integers are  *)
(* 32 bits wide, so a uint32_t is a pair <<hi, lo>> of 16-bit limbs and    *)
(* its arithmetic is limb arithmetic modulo 2^32.  A conversion of a       *)
(* double to an unsigned type whose truncated value does not fit is        *)
(* undefined behaviour in C++: the model takes it as a choice (UB) between *)
(* the two outcomes compilers produce, wrapping and saturating.            *)
(***************************************************************************)
EXTENDS Integers, Sequences, FiniteSets, TLC

VARIABLES
    node,        \* SpecNode: one UniversalNode
    ret          \* SpecNode: the last call on node, its arguments and result

VARIABLES
    nodes,       \* SpecEngine, SpecDriver: UniversalNodeEngine::nodes
    eret,        \* SpecEngine: the last engine call and what it returned
    sweeps       \* SpecEngine: performRoleSwitching calls in a row (history)

VARIABLES
    anode,       \* SpecSignal: one AnalogUniversalNode
    sret         \* SpecSignal: the last call on anode and its result

VARIABLES
    anodes,      \* SpecAnalog: AnalogCellularEngine::nodes
    aret         \* SpecAnalog: the last engine call and what it returned

VARIABLES
    build,       \* SpecDriver: which main the build links
    pc,          \* SpecDriver: where the driver thread is
    calls,       \* SpecDriver: driver iterations started so far
    initialized, \* SpecDriver: the static flag of minimal_computation_test
    sweepAt,     \* SpecDriver: the unit performRoleSwitching is switching (0: none)
    waveAt,      \* SpecDriver: the unit executeWave is executing (0: none)
    waveArgs     \* SpecDriver: base_input and total_output of the running wave

VARIABLES
    sheetNodes,  \* SpecSheet: MemoryParallelSheet::nodes, the allocated ones
    nodeCount,   \* SpecSheet: MemoryParallelSheet::nodeCount
    workers,     \* SpecSheet: MemoryParallelSheet::workers, as thread ids
    threads,     \* SpecSheet: the worker threads started so far
    caller,      \* SpecSheet: where the thread that calls the sheet is
    late         \* SpecSheet: a worker wrote a node outside a wave (history)

VARIABLES
    inz          \* SpecInitialize: the lattice initialize left, and a getNode

VARIABLES
    omp,         \* SpecOmp: the parallel loop of processSignalWave
    team         \* SpecOmp: the threads of the loop's team

VARIABLES
    engines,      \* SpecSweep: the AnalogCellularEngine instances of the process
    time_counter, \* SpecSweep: static time_counter of performSignalSweep, in 0.001
    swret         \* SpecSweep: the last performSignalSweep and the wave result in it

VARIABLES
    modules,      \* SpecBridge: APIBridge::modules
    cellFiles,    \* SpecBridge: the files cell_<cellId>.json
    gridFile,     \* SpecBridge: the file grid_state.json
    bret          \* SpecBridge: the last operation

nodeVars   == <<node, ret>>
engineVars == <<nodes, eret, sweeps>>
signalVars == <<anode, sret>>
analogVars == <<anodes, aret>>
driverVars == <<build, pc, calls, initialized, sweepAt, waveAt, waveArgs>>
sheetVars  == <<sheetNodes, nodeCount, workers, threads, caller, late>>
ompVars    == <<omp, team>>
buildVars  == <<inz>>
sweepVars  == <<engines, time_counter, swret>>
bridgeVars == <<modules, cellFiles, gridFile, bret>>
restVars   == <<sheetVars, ompVars, buildVars, sweepVars, bridgeVars>>
vars       == <<nodeVars, engineVars, signalVars, analogVars, driverVars, restVars>>

----------------------------------------------------------------------------
(* Bounds of the model.                                                    *)

\* Largest lattice the engines are built with.
MaxNodes == 7
\* Executions of one unit (waves of one lattice) a behaviour may hold.
MaxExec == 3
\* Role changes of the single unit of SpecNode a behaviour may hold.
MaxSwitch == 2

----------------------------------------------------------------------------
(* Numbers.                                                                *)

\* The unit of the fixed-point doubles: 1.0 is Scale.
Scale == 10 * 10 * 10

\* 2^16, the base of the limbs of a uint32_t, and 2^8.
Limb == 256 * 256
Byte == 16 * 16

\* NaN, the double that is no number, held as a value below every number the
\* model computes.  Every comparison with it is false.
NaN == -(Limb * (Limb \div 4))

\* a < b and a <= b of two doubles.
Less(a, b) == a # NaN /\ b # NaN /\ a < b

Leq(a, b) == a # NaN /\ b # NaN /\ a <= b

\* a * b of two doubles: (a * b) \div Scale, computed by parts to keep the
\* intermediate products small.
Mul(a, b) ==
    IF a = NaN \/ b = NaN THEN NaN
    ELSE a * (b \div Scale) + (a * (b % Scale)) \div Scale

\* The significant bits the model keeps of a sum of doubles: 2^12 (a double
\* keeps 2^53).
Significand == 64 * 64

\* The spacing of the doubles around a magnitude m: the smallest power of two
\* q, from q on, with m < Significand * q.
RECURSIVE Quantum(_, _)
Quantum(m, q) == IF m < Significand * q THEN q ELSE Quantum(m, 2 * q)

\* s rounded to the nearest multiple of q, ties to the even multiple.
RoundTo(s, q) ==
    LET r    == s % q
        down == s - r
    IN  IF 2 * r < q THEN down
        ELSE IF 2 * r > q THEN down + q
        ELSE IF (down \div q) % 2 = 0 THEN down ELSE down + q

\* a + b of two doubles: the sum, rounded to the nearest double.
FAdd(a, b) ==
    LET s == a + b IN
    RoundTo(s, Quantum(IF s < 0 THEN -s ELSE s, 1))

\* The integer a double truncates to (towards zero), as static_cast does.
Trunc(v) == IF v >= 0 THEN v \div Scale ELSE -((-v) \div Scale)

\* The outcomes of an out-of-range double-to-unsigned conversion.
UB == {"wrap", "sat"}

\* A uint32_t from a small natural number.
U32(n) == <<n \div Limb, n % Limb>>

\* static_cast<uint32_t>(v): defined when the truncated value is >= 0 (every
\* double the model holds is below 2^32); undefined otherwise.
CastU32(v, ub) ==
    LET t == Trunc(v) IN
    IF t >= 0 THEN U32(t)
    ELSE IF ub = "wrap"
         THEN <<(Limb - 1) - ((-t - 1) \div Limb), (Limb - 1) - ((-t - 1) % Limb)>>
         ELSE <<0, 0>>

\* static_cast<uint8_t>(v): defined when the truncated value is in 0..255.
CastU8(v, ub) ==
    LET t == Trunc(v) IN
    IF t >= 0 /\ t < Byte THEN t
    ELSE IF ub = "wrap" THEN t % Byte
         ELSE IF t < 0 THEN 0 ELSE Byte - 1

\* a + b of two uint32_t, modulo 2^32.
Add32(a, b) ==
    LET lo == a[2] + b[2]
        hi == a[1] + b[1] + (lo \div Limb)
    IN  <<hi % Limb, lo % Limb>>

\* Largest uint32_t whose double the model holds: hi limb below 2^5.
Fits(u) == u[1] < 32

\* static_cast<double>(u) of a uint32_t that Fits.
U32ToDouble(u) == (u[1] * Limb + u[2]) * Scale

\* sin(k * 0.1), k = 0, 1, ..., in units of 1/Scale (sinf, sin of <cmath>).
SinTab ==
    <<0, 100, 199, 296, 389, 479, 565, 644, 717, 783, 841, 891, 932, 964, 985,
      997, 1000, 992, 974, 946, 909, 863, 808, 746, 675, 598, 516, 427, 335,
      239, 141, 42>>

SinTenths(k) == SinTab[k + 1]

----------------------------------------------------------------------------
(* UniversalNode.                                                          *)

NodeType == {"WORKER", "COMM", "VECTOR", "PROCESSOR", "MARKOV", "KERNEL"}

\* The members of union FunctionData.  kind names the member the block was
\* last written as; tail is what the bytes of the union beyond that member
\* hold: "uninit" as constructed, "zero" after memset.
WorkerData ==
    [kind |-> "worker", gain |-> Scale, accumulator |-> 0, previous_value |-> 0]

CommData ==
    [kind |-> "comm", message_count |-> U32(0), routing_table |-> <<0, 0, 0, 0, 0, 0>>]

VectorData ==
    [kind |-> "vector", data |-> [i \in 0..7 |-> 0], threshold |-> (8 * Scale) \div 10]

ProcessorData ==
    [kind |-> "processor", registers |-> <<U32(0), U32(0), U32(0), U32(0)>>, pc |-> 0]

MarkovData ==
    [kind |-> "markov", state |-> 0,
     transitions |-> <<Scale \div 4, Scale \div 4, Scale \div 4, Scale \div 4>>]

KernelData ==
    [kind |-> "kernel", influence |-> Scale, decay |-> (9 * Scale) \div 10]

\* Without the memset the bytes outside the new member keep what they held.
NoMemsetThen(d) == [tail |-> "stale"] @@ d

\* memset(&data, 0, sizeof(data)) followed by data.<member> = d: every byte
\* of the union outside the member is zero.
MemsetThen(d) == [tail |-> "zero"] @@ d

\* The constructor: data.worker = WorkerData(), the rest of the union as
\* allocated.
UniversalNode(id, px, py, pz) ==
    [current_type |-> "WORKER", value |-> 0, priority |-> "NORMAL",
     data |-> [tail |-> "uninit"] @@ WorkerData,
     x |-> px, y |-> py, z |-> pz, node_id |-> id,
     switch_count |-> 0, execution_count |-> 0]

\* A switch to WORKER that leaves the accumulator at its default.
SeedWorkerNone(d, current_val) == d

\* data.worker.accumulator = current_val.
SeedWorker(d, current_val) == [d EXCEPT !.accumulator = current_val]

\* data.vector.data[i] = sinf((x + y + z + i) * 0.1f), i = 0..7.
SeedVector(d, x, y, z) ==
    [d EXCEPT !.data = [i \in 0..7 |-> SinTenths(x + y + z + i)]]

\* data.processor.registers[0] = static_cast<uint32_t>(current_val).
SeedProcessor(d, current_val, ub) ==
    [d EXCEPT !.registers[1] = CastU32(current_val, ub)]

\* data.markov.state = static_cast<uint8_t>(current_val) % 4.
SeedMarkov(d, current_val, ub) ==
    [d EXCEPT !.state = CastU8(current_val, ub) % 4]

\* A switch to KERNEL that leaves the influence at its default.
SeedKernelNone(d, current_val) == d

\* data.kernel.influence = current_val.
SeedKernel(d, current_val) == [d EXCEPT !.influence = current_val]

\* The block switchToType(new_type) builds from the unit's value current_val.
SwitchData(n, new_type, ub) ==
    LET current_val == n.value IN
    CASE new_type = "WORKER" -> SeedWorker(MemsetThen(WorkerData), current_val)
      [] new_type = "COMM" -> MemsetThen(CommData)
      [] new_type = "VECTOR" -> SeedVector(MemsetThen(VectorData), n.x, n.y, n.z)
      [] new_type = "PROCESSOR" ->
           SeedProcessor(MemsetThen(ProcessorData), current_val, ub)
      [] new_type = "MARKOV" -> SeedMarkov(MemsetThen(MarkovData), current_val, ub)
      [] new_type = "KERNEL" -> SeedKernel(MemsetThen(KernelData), current_val)

\* What switchToType returns.
SwitchReturns(n, new_type) == n.current_type # new_type

\* switchToType without its early return.
SwitchToTypeNoGuard(n, new_type, ub) ==
    [n EXCEPT !.current_type = new_type,
              !.switch_count = @ + 1,
              !.data = SwitchData(n, new_type, ub)]

\* The unit after switchToType(new_type).
SwitchToType(n, new_type, ub) ==
    IF n.current_type = new_type THEN n
    ELSE [n EXCEPT !.current_type = new_type,
                   !.switch_count = @ + 1,
                   !.data = SwitchData(n, new_type, ub)]

\* sum over i of data[i] * input_f, accumulated in index order.
RECURSIVE Similarity(_, _, _)
Similarity(data, input_f, i) ==
    IF i < 0 THEN 0 ELSE Similarity(data, input_f, i - 1) + Mul(data[i], input_f)

\* The PROCESSOR case with the sum written over registers[0] as well.
ProcessorStepOverwrites(d, input, ub) ==
    LET r1 == Add32(d.registers[1], CastU32(input, ub))
    IN  [data |-> [d EXCEPT !.registers[1] = r1, !.registers[2] = r1,
                            !.pc = (@ + 1) % Limb],
         result |-> IF Fits(r1) THEN U32ToDouble(r1) ELSE 0]

\* The PROCESSOR case of execute: registers[1] = registers[0] +
\* static_cast<uint32_t>(input); pc++ (a uint16_t); result = registers[1].
\* (Sequences count from 1: registers[k] of the code is d.registers[k + 1].)
ProcessorStep(d, input, ub) ==
    LET r1 == Add32(d.registers[1], CastU32(input, ub))
    IN  [data |-> [d EXCEPT !.registers[2] = r1, !.pc = (@ + 1) % Limb],
         result |-> IF Fits(r1) THEN U32ToDouble(r1) ELSE 0]

\* The MARKOV case without the reduction modulo 4.
MarkovStepNoMod(d, input, ub) ==
    LET new_state == (CastU8(input * 4, ub) + d.state) % Byte
    IN  [data |-> [d EXCEPT !.state = new_state],
         result |-> new_state * Scale + input]

\* The MARKOV case of execute: new_state = (static_cast<uint8_t>(input * 4) +
\* state) % 4; result = new_state + input.
MarkovStep(d, input, ub) ==
    LET new_state == (CastU8(input * 4, ub) + d.state) % 4
    IN  [data |-> [d EXCEPT !.state = new_state],
         result |-> new_state * Scale + input]

\* The role state and the result of execute(input), by role.
ExecuteStep(n, input, ub) ==
    LET d == n.data IN
    CASE n.current_type = "WORKER" ->
           LET r0  == Mul(input, d.gain)
               acc == d.accumulator + Mul(r0, Scale \div 100)
           IN  [data |-> [d EXCEPT !.accumulator = acc], result |-> r0 + acc]
      [] n.current_type = "COMM" ->
           LET mc == Add32(d.message_count, U32(1))
           IN  [data |-> [d EXCEPT !.message_count = mc],
                result |-> input + Mul(U32ToDouble(mc), Scale \div 100)]
      [] n.current_type = "VECTOR" ->
           [data |-> d, result |-> Similarity(d.data, input, 7)]
      [] n.current_type = "PROCESSOR" -> ProcessorStep(d, input, ub)
      [] n.current_type = "MARKOV" -> MarkovStep(d, input, ub)
      [] n.current_type = "KERNEL" ->
           LET inf == Mul(d.influence, d.decay)
           IN  [data |-> [d EXCEPT !.influence = inf], result |-> inf + input]

\* Whether the model holds the double execute(input) returns.
ExecuteFits(n, input, ub) ==
    n.current_type = "PROCESSOR" =>
        Fits(Add32(n.data.registers[1], CastU32(input, ub)))

\* execute(input) that counts the call but leaves value as it was.
ExecuteKeepsValue(n, input, ub) ==
    LET s == ExecuteStep(n, input, ub) IN
    [n EXCEPT !.data = s.data, !.execution_count = @ + 1]

\* The unit after execute(input): value = result; ++execution_count.
Execute(n, input, ub) ==
    LET s == ExecuteStep(n, input, ub) IN
    [n EXCEPT !.data = s.data, !.value = s.result,
              !.execution_count = @ + 1]

----------------------------------------------------------------------------
(* SpecNode: one unit under any sequence of switchToType and execute.      *)

\* The inputs execute is called with: -1.5, -0.3, 0.0, 0.5, 5.0.
NodeInputs == {-(3 * Scale) \div 2, -((3 * Scale) \div 10), 0, Scale \div 2, 5 * Scale}

NoCall == [op |-> "none"]

\* The state of the parts a specification does not use.
EngineIdle ==
    /\ nodes = <<>>
    /\ eret = NoCall
    /\ sweeps = 0

SignalIdle ==
    /\ anode = 0
    /\ sret = NoCall

AnalogIdle ==
    /\ anodes = <<>>
    /\ aret = NoCall

SheetIdle ==
    /\ sheetNodes = <<>>
    /\ nodeCount = 0
    /\ workers = <<>>
    /\ threads = <<>>
    /\ caller = NoCall
    /\ late = FALSE

OmpIdle ==
    /\ omp = NoCall
    /\ team = <<>>

BuildIdle == inz = NoCall

SweepIdle ==
    /\ engines = <<>>
    /\ time_counter = 0
    /\ swret = NoCall

\* A file that has not been written.
NoFile == [written |-> FALSE]

BridgeIdle ==
    /\ modules = <<>>
    /\ cellFiles = <<>>
    /\ gridFile = NoFile
    /\ bret = NoCall

RestIdle == SheetIdle /\ OmpIdle /\ BuildIdle /\ SweepIdle /\ BridgeIdle

DriverIdle ==
    /\ build = "none"
    /\ pc = "none"
    /\ calls = 0
    /\ initialized = FALSE
    /\ sweepAt = 0
    /\ waveAt = 0
    /\ waveArgs = NoCall

InitNode ==
    /\ \E id \in 0..(MaxNodes - 1) :
          node = UniversalNode(id, id % 10, (id \div 10) % 10, id \div 100)
    /\ ret = NoCall
    /\ EngineIdle /\ SignalIdle /\ AnalogIdle /\ DriverIdle /\ RestIdle

NodeSwitch ==
    \E t \in NodeType, ub \in UB :
        /\ node.switch_count < MaxSwitch \/ t = node.current_type
        /\ node' = SwitchToType(node, t, ub)
        /\ ret' = [op |-> "switchToType", new_type |-> t,
                   value_before |-> node.value,
                   result |-> SwitchReturns(node, t)]
        /\ UNCHANGED <<engineVars, signalVars, analogVars, driverVars, restVars>>

NodeExecute ==
    \E input \in NodeInputs, ub \in UB :
        /\ node.execution_count < MaxExec
        /\ ExecuteFits(node, input, ub)
        /\ node' = Execute(node, input, ub)
        /\ ret' = [op |-> "execute", input |-> input,
                   result |-> ExecuteStep(node, input, ub).result]
        /\ UNCHANGED <<engineVars, signalVars, analogVars, driverVars, restVars>>

NextNode == NodeSwitch \/ NodeExecute

SpecNode == InitNode /\ [][NextNode]_vars

----------------------------------------------------------------------------
(* Claims about one unit, checked under SpecNode.                          *)

\* C1: switchToType(r) on a unit whose role is already r returns false and
\* leaves the role tag, the role-state block, the output value, switch_count
\* and execution_count (the whole unit) as they were.
C1_SameRoleIsNoOp ==
    [][(ret'.op = "switchToType" /\ ret'.new_type = node.current_type)
          => (ret'.result = FALSE /\ node' = node)]_vars

\* A switch to the current role was made on a unit that had executed, changed
\* role and holds role state that differs from the default block.
C1_Witness ==
    /\ ret.op = "switchToType"
    /\ ret.result = FALSE
    /\ node.current_type = "KERNEL"
    /\ node.execution_count > 0
    /\ node.data.influence # Scale

\* The blocks a switch to role t may leave in a unit at (x, y, z) whose value
\* is v: the defaults of the role's struct, every byte outside it zero, and
\* the one seeded field.
FreshBlocks(t, v, x, y, z) ==
    CASE t = "WORKER" ->
           {[kind |-> "worker", tail |-> "zero", gain |-> Scale,
             accumulator |-> v, previous_value |-> 0]}
      [] t = "COMM" ->
           {[kind |-> "comm", tail |-> "zero", message_count |-> <<0, 0>>,
             routing_table |-> <<0, 0, 0, 0, 0, 0>>]}
      [] t = "VECTOR" ->
           {[kind |-> "vector", tail |-> "zero", threshold |-> 800,
             data |-> [i \in 0..7 |-> SinTab[x + y + z + i + 1]]]}
      [] t = "PROCESSOR" ->
           {[kind |-> "processor", tail |-> "zero", pc |-> 0,
             registers |-> <<r0, <<0, 0>>, <<0, 0>>, <<0, 0>>>>] :
                r0 \in {CastU32(v, ub) : ub \in UB}}
      [] t = "MARKOV" ->
           {[kind |-> "markov", tail |-> "zero", state |-> s,
             transitions |-> <<250, 250, 250, 250>>] :
                s \in {CastU8(v, ub) % 4 : ub \in UB}}
      [] t = "KERNEL" ->
           {[kind |-> "kernel", tail |-> "zero", influence |-> v,
             decay |-> 900]}

\* C2: after switchToType to a different role the role-state block is the
\* default block of the new role changed only by the seeding rule (and the
\* position-derived embedding for VECTOR); nothing written in an earlier role
\* survives, whatever calls came before.
C2_SwitchReplacesWholeBlock ==
    (ret.op = "switchToType" /\ ret.result = TRUE)
        => node.data \in FreshBlocks(node.current_type, ret.value_before,
                                     node.x, node.y, node.z)

\* A second role change, made after an execute in the first new role had
\* written that role's state.
C2_Witness ==
    /\ ret.op = "switchToType"
    /\ ret.result = TRUE
    /\ node.switch_count = 2
    /\ node.execution_count >= 2
    /\ node.current_type = "COMM"

\* C3: after switchToType(WORKER) from another role on a unit whose last
\* output is v, the accumulator is v, the gain is the default 1.0 and the
\* previous value is 0.
C3_WorkerSeededFromValue ==
    (ret.op = "switchToType" /\ ret.result = TRUE /\ ret.new_type = "WORKER")
        => /\ node.data.accumulator = ret.value_before
           /\ node.data.accumulator = node.value
           /\ node.data.gain = Scale
           /\ node.data.previous_value = 0

\* A switch back to WORKER of a unit whose last output is not 0.
C3_Witness ==
    /\ ret.op = "switchToType"
    /\ ret.result = TRUE
    /\ ret.new_type = "WORKER"
    /\ node.value # 0
    /\ node.data.accumulator = node.value

\* C15: execute on a unit in the PROCESSOR role sets registers[1] to
\* registers[0] plus the input converted to a uint32_t (its truncation when
\* that is not negative), adds 1 to pc in the 16 bits of pc, leaves
\* registers[0] unchanged and returns registers[1]; with the registers zero
\* and pc 0, execute(5.0) leaves registers[1] = 5, pc = 1 and returns 5.0.
C15_ProcessorExecute ==
    [][(ret'.op = "execute" /\ node.current_type = "PROCESSOR") =>
          LET d == node.data
              e == node'.data
              input == ret'.input
          IN  /\ \E ub \in UB :
                    e.registers[2] = Add32(d.registers[1], CastU32(input, ub))
              /\ Trunc(input) >= 0 =>
                    e.registers[2] = Add32(d.registers[1], U32(Trunc(input)))
              /\ e.pc = (d.pc + 1) % Limb
              /\ e.registers[1] = d.registers[1]
              /\ e.registers[3] = d.registers[3]
              /\ e.registers[4] = d.registers[4]
              /\ ret'.result = U32ToDouble(e.registers[2])
              /\ node'.value = ret'.result
              /\ (d.registers = ProcessorData.registers /\ d.pc = 0
                    /\ input = 5 * Scale)
                 => /\ e.registers[2] = U32(5)
                    /\ e.pc = 1
                    /\ ret'.result = 5 * Scale
      ]_vars

\* execute(5.0) on a PROCESSOR unit whose registers were zero, and a second
\* execute(5.0) after it.
C15_Witness ==
    /\ ret.op = "execute"
    /\ ret.input = 5 * Scale
    /\ node.current_type = "PROCESSOR"
    /\ node.data.registers = <<U32(0), U32(5), U32(0), U32(0)>>
    /\ node.data.pc = 2
    /\ ret.result = 5 * Scale

\* C16: in the PROCESSOR role registers[1] after execute always equals
\* (registers[0] + truncated input) modulo 2^32, and execute reports no fault.
C16_SumWrapsModulo ==
    [][(ret'.op = "execute" /\ node.current_type = "PROCESSOR") =>
          /\ node'.data.registers[2] =
                Add32(node.data.registers[1], CastU32(ret'.input, "wrap"))
          /\ ret'.result = U32ToDouble(node'.data.registers[2])
      ]_vars

\* C17: execute on a unit in the MARKOV role sets the state to
\* (floor(input * 4) + state) mod 4 and returns the new state + input, for
\* every input; from state 0, execute(0.5) gives state 2 and returns 2.5.
C17_MarkovFloor ==
    [][(ret'.op = "execute" /\ node.current_type = "MARKOV") =>
          LET input == ret'.input
              floor == (input * 4) \div Scale
          IN  /\ node'.data.state = (floor + node.data.state) % 4
              /\ ret'.result = node'.data.state * Scale + input
              /\ (node.data.state = 0 /\ input = Scale \div 2)
                 => node'.data.state = 2 /\ ret'.result = (5 * Scale) \div 2
      ]_vars

\* C19: the switch count and the execution count of a unit never decrease:
\* every execute adds exactly 1 to the execution count and stores the result
\* it returns as the unit's value, and switchToType adds exactly 1 to the
\* switch count when the role changes and nothing otherwise.
C19_CountsMonotonic ==
    [][/\ node'.switch_count >= node.switch_count
       /\ node'.execution_count >= node.execution_count
       /\ ret'.op = "execute" =>
             /\ node'.execution_count = node.execution_count + 1
             /\ node'.switch_count = node.switch_count
             /\ node'.value = ret'.result
       /\ ret'.op = "switchToType" =>
             /\ node'.execution_count = node.execution_count
             /\ node'.switch_count =
                   node.switch_count
                     + (IF node'.current_type # node.current_type THEN 1 ELSE 0)
             /\ ret'.result = (node'.current_type # node.current_type)
      ]_vars

\* A third execute, on a unit that has changed role twice, returning a value
\* other than the one the unit held before.
C19_Witness ==
    /\ ret.op = "execute"
    /\ node.execution_count = 3
    /\ node.switch_count = 2
    /\ node.current_type = "KERNEL"
    /\ node.value = ret.result
    /\ node.value # ret.input

\* C22: switchToType to a different role leaves the unit's value, execution
\* count, coordinates and id unchanged, and a switch to KERNEL sets the
\* influence to that carried-forward value, with the default decay 0.9.
C22_SwitchCarriesValue ==
    [][(ret'.op = "switchToType" /\ ret'.result = TRUE) =>
          /\ node'.current_type = ret'.new_type
          /\ node'.current_type # node.current_type
          /\ node'.value = node.value
          /\ node'.execution_count = node.execution_count
          /\ node'.x = node.x /\ node'.y = node.y /\ node'.z = node.z
          /\ node'.node_id = node.node_id
          /\ ret'.new_type = "KERNEL" =>
                /\ node'.data.influence = node.value
                /\ node'.data.decay = (9 * Scale) \div 10
      ]_vars

\* A switch to KERNEL of a unit with id 3 that has executed twice and holds
\* a value other than 0 and other than the default influence.
C22_Witness ==
    /\ ret.op = "switchToType"
    /\ ret.result = TRUE
    /\ ret.new_type = "KERNEL"
    /\ node.node_id = 3
    /\ node.execution_count = 2
    /\ node.value # 0
    /\ node.value # Scale
    /\ node.data.influence = node.value

\* C23: whenever a unit is in the MARKOV role its state is in 0..3, after any
\* sequence of switchToType and execute calls with any inputs and any value
\* held before.
C23_MarkovStateInRange ==
    node.current_type = "MARKOV" => node.data.state \in 0..3

\* A MARKOV unit after its third execute, an execute(-0.3), whose conversion
\* is out of range, in state 3.
C23_Witness ==
    /\ ret.op = "execute"
    /\ ret.input = -((3 * Scale) \div 10)
    /\ node.current_type = "MARKOV"
    /\ node.execution_count = 3
    /\ node.data.state = 3

----------------------------------------------------------------------------
(* SpecMove: one unit under switchToType, execute and the move operations. *)

\* The member of union FunctionData that the code of a role reads and writes.
Member(t) ==
    CASE t = "WORKER" -> "worker"
      [] t = "COMM" -> "comm"
      [] t = "VECTOR" -> "vector"
      [] t = "PROCESSOR" -> "processor"
      [] t = "MARKOV" -> "markov"
      [] t = "KERNEL" -> "kernel"

\* What the bytes of the union beyond the 24 of data.worker may hold when a
\* float is read from them: 0.0, 1.0.
JunkFloats == {0, Scale}

\* The block as the member of role t reads it.  A block written as another
\* member is a WorkerData() left by a move (gain 1.0 = 0x3FF0000000000000,
\* accumulator and previous_value 0.0), read through the overlaid member: the
\* bytes 4..7 are 00 00 F0 3F, the float 1.875 and the uint32_t 0x3FF00000,
\* every other byte of the 24 is zero, and the bytes beyond hold junk.
ViewAs(d, t, junk) ==
    IF d.kind = Member(t) THEN d
    ELSE [tail |-> d.tail] @@
         CASE t = "COMM" ->
                [kind |-> "comm", message_count |-> U32(0),
                 routing_table |-> <<0, 0, 240, 63, 0, 0>>]
           [] t = "VECTOR" ->
                [kind |-> "vector",
                 data |-> [i \in 0..7 |->
                              IF i = 1 THEN (15 * Scale) \div 8
                              ELSE IF i >= 6 THEN junk ELSE 0],
                 threshold |-> junk]
           [] t = "PROCESSOR" ->
                [kind |-> "processor",
                 registers |-> <<U32(0), <<(Limb \div 4) - 16, 0>>, U32(0), U32(0)>>,
                 pc |-> 0]
           [] t = "MARKOV" ->
                [kind |-> "markov", state |-> 0,
                 transitions |-> <<(15 * Scale) \div 8, 0, 0, 0>>]
           [] t = "KERNEL" ->
                [kind |-> "kernel", influence |-> d.gain, decay |-> d.accumulator]

\* UniversalNode(UniversalNode&& other): the new unit.  Every scalar member
\* is copied, current_type included, and data.worker = WorkerData().
MoveConstruct(other) ==
    [other EXCEPT !.data = [tail |-> "uninit"] @@ WorkerData]

\* operator=(UniversalNode&& other) on a unit other than other: the unit
\* assigned to.  Its bytes beyond data.worker keep what they held.
MoveAssign(other) ==
    [other EXCEPT !.data = [tail |-> "stale"] @@ WorkerData]

\* node becomes the unit move-constructed from it (a vector that grows moves
\* its elements this way).
MvMoveConstruct ==
    /\ node' = MoveConstruct(node)
    /\ ret' = [op |-> "move-construct"]
    /\ UNCHANGED <<engineVars, signalVars, analogVars, driverVars, restVars>>

\* node becomes the unit it was move-assigned to; a self-assignment changes
\* nothing.
MvMoveAssign ==
    \E self \in BOOLEAN :
        /\ node' = IF self THEN node ELSE MoveAssign(node)
        /\ ret' = [op |-> "move-assign", self |-> self]
        /\ UNCHANGED <<engineVars, signalVars, analogVars, driverVars, restVars>>

MvExecute ==
    \E input \in NodeInputs, ub \in UB, junk \in JunkFloats :
        LET n == [node EXCEPT !.data = ViewAs(node.data, node.current_type, junk)]
        IN  /\ node.execution_count < MaxExec
            /\ ExecuteFits(n, input, ub)
            /\ node' = Execute(n, input, ub)
            /\ ret' = [op |-> "execute", input |-> input,
                       result |-> ExecuteStep(n, input, ub).result]
            /\ UNCHANGED <<engineVars, signalVars, analogVars, driverVars, restVars>>

NextMove == NodeSwitch \/ MvExecute \/ MvMoveConstruct \/ MvMoveAssign

SpecMove == InitNode /\ [][NextMove]_vars

\* C21: in every reachable state of a unit, after any sequence of
\* construction, move-construction, move-assignment, switchToType and execute,
\* the role-state block holds the fields of the role the role tag names.
C21_BlockMatchesTag == node.data.kind = Member(node.current_type)

----------------------------------------------------------------------------
(* UniversalNodeEngine.                                                    *)

\* static const NodeType types[] of performRoleSwitching.
types == <<"WORKER", "COMM", "VECTOR", "PROCESSOR", "MARKOV", "KERNEL">>

\* The unit initialize emplaces at index i (below 2^15 * 100, where the
\* int16_t of z holds i / 100):
\* nodes.emplace_back(static_cast<uint16_t>(i), x, y, z).
EmplacedUnit(i) ==
    UniversalNode(i % Limb, i % 10, (i \div 10) % 10, i \div 100)

\* initialize(node_count): the vector cleared, capacity reserved, and one
\* unit emplaced per index (no unit is moved: the capacity is there).
InitializeNodes(node_count) ==
    [k \in 1..node_count |-> EmplacedUnit(k - 1)]

\* node_input of unit i (0-based) in executeWave.
NodeInput(base_input, i) == base_input + i * (Scale \div 10)

\* The loop of executeWave from unit k (1-based) on: the units after it and
\* the sum of the outputs.
RECURSIVE WaveLoop(_, _, _, _, _)
WaveLoop(ns, k, base_input, ub, total_output) ==
    IF k > Len(ns) THEN [nodes |-> ns, total_output |-> total_output]
    ELSE LET n == Execute(ns[k], NodeInput(base_input, k - 1), ub)
         IN  WaveLoop([ns EXCEPT ![k] = n], k + 1, base_input, ub,
                      total_output + n.value)

\* executeWave(base_input) that stops one unit short.
ExecuteWaveSkipsLast(ns, base_input, ub) ==
    IF ns = <<>> THEN [nodes |-> ns, result |-> 0]
    ELSE LET w == WaveLoop(SubSeq(ns, 1, Len(ns) - 1), 1, base_input, ub, 0)
         IN  [nodes |-> w.nodes \o <<ns[Len(ns)]>>,
              result |-> w.total_output \div Len(ns)]

\* executeWave(base_input) that drops the last unit of the vector.
ExecuteWaveLosesLast(ns, base_input, ub) ==
    IF ns = <<>> THEN [nodes |-> ns, result |-> 0]
    ELSE LET w == WaveLoop(ns, 1, base_input, ub, 0)
         IN  [nodes |-> SubSeq(w.nodes, 1, Len(ns) - 1),
              result |-> w.total_output \div Len(ns)]

\* executeWave(base_input): the units after the wave and the value returned.
ExecuteWave(ns, base_input, ub) ==
    IF ns = <<>> THEN [nodes |-> ns, result |-> 0]
    ELSE LET w == WaveLoop(ns, 1, base_input, ub, 0)
         IN  [nodes |-> w.nodes, result |-> w.total_output \div Len(ns)]

\* Whether the model holds every double the wave computes.
WaveFits(ns, base_input, ub) ==
    \A k \in 1..Len(ns) : ExecuteFits(ns[k], NodeInput(base_input, k - 1), ub)

\* performRoleSwitching that re-initialises a unit already in its role.
RoleSwitchingNoGuard(ns, ub) ==
    [k \in 1..Len(ns) |-> SwitchToTypeNoGuard(ns[k], types[((k - 1) % 6) + 1], ub)]

\* performRoleSwitching with the pattern shifted by one: types[(i + 1) % 6].
RoleSwitchingShifted(ns, ub) ==
    [k \in 1..Len(ns) |-> SwitchToType(ns[k], types[(k % 6) + 1], ub)]

\* performRoleSwitching(): unit i is switched to types[i % 6].
PerformRoleSwitching(ns, ub) ==
    [k \in 1..Len(ns) |-> SwitchToType(ns[k], types[((k - 1) % 6) + 1], ub)]

\* A total that leaves out the first unit.
RECURSIVE SumFieldSkipsFirst(_, _, _)
SumFieldSkipsFirst(ns, f, k) ==
    IF k <= 1 THEN 0 ELSE SumFieldSkipsFirst(ns, f, k - 1) + ns[k][f]

\* The total of field f over the first k units, as the loop of
\* getPerformanceStats adds it up.
RECURSIVE SumField(_, _, _)
SumField(ns, f, k) == IF k = 0 THEN 0 ELSE SumField(ns, f, k - 1) + ns[k][f]

\* getPerformanceStats(): what it prints; nothing on an empty lattice.
PerformanceStats(ns) ==
    IF ns = <<>> THEN [printed |-> FALSE]
    ELSE LET total_switches   == SumField(ns, "switch_count", Len(ns))
             total_executions == SumField(ns, "execution_count", Len(ns))
         IN  [printed |-> TRUE, nodes |-> Len(ns),
              total_switches |-> total_switches,
              total_executions |-> total_executions,
              avg_switches |-> total_switches \div Len(ns)]

\* getNode(index): the position of the unit pointed to, or nullptr.
GetNode(ns, index) == IF index < Len(ns) THEN index + 1 ELSE "nullptr"

----------------------------------------------------------------------------
(* SpecEngine: one UniversalNodeEngine under any sequence of its calls.    *)

\* The base inputs of a wave: -1.0, 0.5, 2.0.
WaveInputs == {-Scale, Scale \div 2, 2 * Scale}

NodeIdle ==
    /\ node = UniversalNode(0, 0, 0, 0)
    /\ ret = NoCall

InitEngine ==
    /\ nodes = <<>>
    /\ eret = NoCall
    /\ sweeps = 0
    /\ NodeIdle /\ SignalIdle /\ AnalogIdle /\ DriverIdle /\ RestIdle

EngInitialize ==
    \E node_count \in 0..MaxNodes :
        /\ nodes' = InitializeNodes(node_count)
        /\ eret' = [op |-> "initialize", node_count |-> node_count]
        /\ sweeps' = 0
        /\ UNCHANGED <<nodeVars, signalVars, analogVars, driverVars, restVars>>

EngExecuteWave ==
    \E base_input \in WaveInputs, ub \in UB :
        /\ \A k \in 1..Len(nodes) : nodes[k].execution_count < MaxExec
        /\ WaveFits(nodes, base_input, ub)
        /\ \E w \in {ExecuteWave(nodes, base_input, ub)} :
              /\ nodes' = w.nodes
              /\ eret' = [op |-> "executeWave", base_input |-> base_input,
                          result |-> w.result]
        /\ sweeps' = 0
        /\ UNCHANGED <<nodeVars, signalVars, analogVars, driverVars, restVars>>

EngPerformRoleSwitching ==
    \E ub \in UB :
        /\ nodes' = IF nodes = <<>> THEN nodes ELSE PerformRoleSwitching(nodes, ub)
        /\ eret' = [op |-> "performRoleSwitching"]
        /\ sweeps' = IF sweeps < 2 THEN sweeps + 1 ELSE sweeps
        /\ UNCHANGED <<nodeVars, signalVars, analogVars, driverVars, restVars>>

EngGetPerformanceStats ==
    /\ eret' = [op |-> "getPerformanceStats", result |-> PerformanceStats(nodes)]
    /\ sweeps' = 0
    /\ UNCHANGED <<nodes, nodeVars, signalVars, analogVars, driverVars, restVars>>

EngGetNode ==
    \E index \in 0..(MaxNodes + 1) :
        /\ eret' = [op |-> "getNode", index |-> index,
                    result |-> GetNode(nodes, index)]
        /\ sweeps' = 0
        /\ UNCHANGED <<nodes, nodeVars, signalVars, analogVars, driverVars, restVars>>

NextEngine ==
    \/ EngInitialize
    \/ EngExecuteWave
    \/ EngPerformRoleSwitching
    \/ EngGetPerformanceStats
    \/ EngGetNode

SpecEngine == InitEngine /\ [][NextEngine]_vars

----------------------------------------------------------------------------
(* Claims about UniversalNodeEngine, checked under SpecEngine.             *)

\* C6: one executeWave call runs execute once on every unit (each unit's
\* execution count goes up by exactly 1, so all units always have equal
\* execution counts) and returns the arithmetic mean of the outputs the wave
\* produced.
C6_WaveExecutesEachUnitOnce ==
    /\ [](\A j, k \in 1..Len(nodes) :
             nodes[j].execution_count = nodes[k].execution_count)
    /\ [][eret'.op = "executeWave" =>
            /\ Len(nodes') = Len(nodes)
            /\ \A k \in 1..Len(nodes) :
                  nodes'[k].execution_count = nodes[k].execution_count + 1
            /\ Len(nodes) > 0 =>
                  eret'.result = SumField(nodes', "value", Len(nodes')) \div Len(nodes')
          ]_vars

\* A second wave on a lattice of three units or more, after a role sweep,
\* with outputs that differ between units.
C6_Witness ==
    /\ eret.op = "executeWave"
    /\ Len(nodes) >= 3
    /\ nodes[1].execution_count = 2
    /\ nodes[2].switch_count = 1
    /\ nodes[1].value # nodes[3].value
    /\ eret.result # 0

\* C9: performRoleSwitching is idempotent: after one sweep unit i has role
\* types[i mod 6], and a second sweep right after it changes no unit's role
\* tag, role state, output value or switch_count.
C9_SweepIdempotent ==
    /\ [](eret.op = "performRoleSwitching" =>
             \A k \in 1..Len(nodes) :
                 nodes[k].current_type = types[((k - 1) % 6) + 1])
    /\ [][(eret.op = "performRoleSwitching" /\ eret'.op = "performRoleSwitching")
             => nodes' = nodes]_vars

\* Two sweeps in a row on a lattice whose units had executed and changed role.
C9_Witness ==
    /\ sweeps = 2
    /\ Len(nodes) >= 3
    /\ nodes[2].switch_count = 1
    /\ nodes[2].current_type = "COMM"
    /\ nodes[3].execution_count > 0

\* C14: between two initialize calls the unit sequence is fixed: executeWave,
\* performRoleSwitching, getPerformanceStats and getNode change neither the
\* number of units nor any unit's coordinates or id.
C14_LatticeFixedBetweenInitializes ==
    [][eret'.op # "initialize" =>
          /\ Len(nodes') = Len(nodes)
          /\ \A k \in 1..Len(nodes) :
                /\ nodes'[k].x = nodes[k].x
                /\ nodes'[k].y = nodes[k].y
                /\ nodes'[k].z = nodes[k].z
                /\ nodes'[k].node_id = nodes[k].node_id
      ]_vars

\* A getNode on a lattice of seven units that has run a sweep and two waves
\* since its initialize, every unit still with the coordinates and id of
\* its index.
C14_Witness ==
    /\ eret.op = "getNode"
    /\ Len(nodes) = 7
    /\ nodes[7].execution_count = 2
    /\ nodes[2].switch_count = 1
    /\ \A k \in 1..7 : nodes[k].x = k - 1 /\ nodes[k].node_id = k - 1

\* The sum of field f over the units from unit k on.
RECURSIVE TotalFrom(_, _, _)
TotalFrom(ns, f, k) ==
    IF k > Len(ns) THEN 0 ELSE ns[k][f] + TotalFrom(ns, f, k + 1)

\* C20: getPerformanceStats is read-only: it changes no unit (role, state,
\* output, counters), the totals it reports are the sums of the units' switch
\* and execution counts, and on an empty lattice it returns before it
\* divides by the unit count.
C20_StatsReadOnly ==
    [][eret'.op = "getPerformanceStats" =>
          /\ nodes' = nodes
          /\ IF nodes = <<>>
             THEN eret'.result = [printed |-> FALSE]
             ELSE /\ eret'.result.printed
                  /\ eret'.result.nodes = Len(nodes)
                  /\ eret'.result.total_switches = TotalFrom(nodes, "switch_count", 1)
                  /\ eret'.result.total_executions =
                        TotalFrom(nodes, "execution_count", 1)
                  /\ eret'.result.avg_switches =
                        TotalFrom(nodes, "switch_count", 1) \div Len(nodes)
      ]_vars

\* The statistics of a lattice of seven units after a sweep and a wave: five
\* switches and seven executions.
C20_Witness ==
    /\ eret.op = "getPerformanceStats"
    /\ Len(nodes) = 7
    /\ eret.result.printed
    /\ eret.result.total_switches = 5
    /\ eret.result.total_executions = 7
    /\ eret.result.avg_switches = 0

\* The number of units among the first k whose index is not a multiple of 6.
RECURSIVE Switchable(_)
Switchable(k) ==
    IF k = 0 THEN 0 ELSE Switchable(k - 1) + (IF (k - 1) % 6 # 0 THEN 1 ELSE 0)

\* C27: under any sequence of executeWave and performRoleSwitching calls
\* after initialize, every unit i has switch_count <= 1 and role WORKER or
\* types[i mod 6]; a unit with i mod 6 = 0 never switches, so the total
\* switch count never exceeds the number of units with i mod 6 # 0.
C27_AtMostOneSwitch ==
    /\ \A k \in 1..Len(nodes) :
          /\ nodes[k].switch_count <= 1
          /\ nodes[k].current_type \in {"WORKER", types[((k - 1) % 6) + 1]}
          /\ (k - 1) % 6 = 0 => nodes[k].switch_count = 0
    /\ TotalFrom(nodes, "switch_count", 1) <= Switchable(Len(nodes))

\* Seven units after a wave and a second sweep in a row: units 1..5 have
\* switched once, units 0 and 6 never.
C27_Witness ==
    /\ eret.op = "performRoleSwitching"
    /\ sweeps = 2
    /\ Len(nodes) = 7
    /\ nodes[7].execution_count >= 1
    /\ nodes[7].switch_count = 0
    /\ nodes[7].current_type = "WORKER"
    /\ \A k \in 2..6 : nodes[k].switch_count = 1
    /\ nodes[6].current_type = "KERNEL"

----------------------------------------------------------------------------
(* AnalogUniversalNode.                                                    *)

\* The default member initialisers of class AnalogUniversalNode.
AnalogUniversalNode ==
    [current_output |-> 0, integrator_state |-> 0, previous_input |-> 0,
     feedback_gain |-> Scale, x |-> 0, y |-> 0, z |-> 0, node_id |-> 0,
     operation_count |-> 0]

\* std::abs of a double.
Abs(v) == IF v < 0 THEN -v ELSE v

\* The if-chain of processSignal with its first test written >= 0.5.
ModeInclusive(control_signal) ==
    IF control_signal >= Scale \div 2 THEN "integrator"
    ELSE IF control_signal < -(Scale \div 2) THEN "differentiator"
    ELSE IF control_signal > 0 THEN "amplifier"
    ELSE "inverter"

\* The branch the if-chain of processSignal takes.
Mode(control_signal) ==
    IF control_signal > Scale \div 2 THEN "integrator"
    ELSE IF control_signal < -(Scale \div 2) THEN "differentiator"
    ELSE IF control_signal > 0 THEN "amplifier"
    ELSE "inverter"

\* The unit after processSignal(input_signal, control_signal); what it
\* returns is the new current_output.
ProcessSignal(n, input_signal, control_signal) ==
    LET counted == [n EXCEPT !.operation_count = @ + 1]
        mode == Mode(control_signal)
    IN  CASE mode = "integrator" ->
               LET st == n.integrator_state + Mul(input_signal, Scale \div 10)
               IN  [counted EXCEPT !.integrator_state = st,
                                   !.current_output = Mul(st, n.feedback_gain)]
          [] mode = "differentiator" ->
               LET derivative == input_signal - n.previous_input
               IN  [counted EXCEPT !.previous_input = input_signal,
                                   !.current_output = Mul(derivative, n.feedback_gain)]
          [] mode = "amplifier" ->
               [counted EXCEPT !.current_output =
                   Mul(Mul(input_signal, Scale + control_signal), n.feedback_gain)]
          [] mode = "inverter" ->
               [counted EXCEPT !.current_output =
                   Mul(Mul(-input_signal, Scale + Abs(control_signal)), n.feedback_gain)]

\* std::clamp(v, lo, hi): (v < lo) ? lo : (hi < v) ? hi : v.
Clamp(v, lo, hi) == IF Less(v, lo) THEN lo ELSE IF Less(hi, v) THEN hi ELSE v

\* The unit after setFeedback(feedback_coefficient).
SetFeedback(n, feedback_coefficient) ==
    [n EXCEPT !.feedback_gain =
        Clamp(feedback_coefficient, Scale \div 10, 10 * Scale)]

\* The unit after resetIntegrator().
ResetIntegrator(n) == [n EXCEPT !.integrator_state = 0, !.previous_input = 0]

----------------------------------------------------------------------------
(* SpecSignal: one AnalogUniversalNode under any sequence of its calls.    *)

\* Input signals: -1.0, 0.5, 2.0.
SignalInputs == {-Scale, Scale \div 2, 2 * Scale}

\* Control signals: both thresholds, 0, and values on either side of each.
ControlSignals ==
    {-Scale, -(Scale \div 2) - 1, -(Scale \div 2), -(Scale \div 4), 0, 1,
     Scale \div 2, (Scale \div 2) + 1, Scale}

\* Feedback coefficients: 0.0, 0.5, 20.0, NaN.
FeedbackLevels == {0, Scale \div 2, 20 * Scale, NaN}

InitSignal ==
    /\ anode = AnalogUniversalNode
    /\ sret = NoCall
    /\ NodeIdle /\ EngineIdle /\ AnalogIdle /\ DriverIdle /\ RestIdle

SigProcessSignal ==
    \E input_signal \in SignalInputs, control_signal \in ControlSignals :
        /\ anode.operation_count < MaxExec
        /\ anode' = ProcessSignal(anode, input_signal, control_signal)
        /\ sret' = [op |-> "processSignal", input_signal |-> input_signal,
                    control_signal |-> control_signal,
                    result |-> anode'.current_output]
        /\ UNCHANGED <<nodeVars, engineVars, analogVars, driverVars, restVars>>

SigSetFeedback ==
    \E feedback_coefficient \in FeedbackLevels :
        /\ anode' = SetFeedback(anode, feedback_coefficient)
        /\ sret' = [op |-> "setFeedback",
                    feedback_coefficient |-> feedback_coefficient]
        /\ UNCHANGED <<nodeVars, engineVars, analogVars, driverVars, restVars>>

SigResetIntegrator ==
    /\ anode' = ResetIntegrator(anode)
    /\ sret' = [op |-> "resetIntegrator"]
    /\ UNCHANGED <<nodeVars, engineVars, analogVars, driverVars, restVars>>

NextSignal == SigProcessSignal \/ SigSetFeedback \/ SigResetIntegrator

SpecSignal == InitSignal /\ [][NextSignal]_vars

----------------------------------------------------------------------------
(* Claims about AnalogUniversalNode, checked under SpecSignal.             *)

\* C4: the control value alone selects the mode of processSignal on every
\* call: above 0.5 the unit integrates, below -0.5 it differentiates, in
\* (0, 0.5] it amplifies, and for every other control (0 and -0.5 included)
\* it inverts; exactly 0.5 amplifies; the modes of earlier calls play no part.
C4_ControlSelectsMode ==
    [][sret'.op = "processSignal" =>
        LET c == sret'.control_signal
            u == sret'.input_signal
            g == anode.feedback_gain
            gained(v) == IF g = NaN THEN NaN ELSE (v * g) \div 1000
        IN  /\ c > 500 =>
                 /\ anode'.integrator_state = anode.integrator_state + (u * 100) \div 1000
                 /\ anode'.previous_input = anode.previous_input
                 /\ sret'.result = gained(anode'.integrator_state)
            /\ c < -500 =>
                 /\ anode'.integrator_state = anode.integrator_state
                 /\ anode'.previous_input = u
                 /\ sret'.result = gained(u - anode.previous_input)
            /\ (0 < c /\ c <= 500) =>
                 /\ anode'.integrator_state = anode.integrator_state
                 /\ anode'.previous_input = anode.previous_input
                 /\ sret'.result = gained((u * (1000 + c)) \div 1000)
            /\ (-500 <= c /\ c <= 0) =>
                 /\ anode'.integrator_state = anode.integrator_state
                 /\ anode'.previous_input = anode.previous_input
                 /\ sret'.result = gained((-u * (1000 - c)) \div 1000)
            /\ anode'.current_output = sret'.result
      ]_vars

\* A call with control exactly 0.5 that amplified (2.0 * 1.5 = 3.0), made on
\* a unit that had integrated and differentiated before.
C4_Witness ==
    /\ sret.op = "processSignal"
    /\ sret.control_signal = 500
    /\ sret.input_signal = 2000
    /\ sret.result = 3000
    /\ anode.integrator_state # 0
    /\ anode.previous_input # 0

\* C18: the feedback gain of a node lies in [0.1, 10.0] in every reachable
\* state: 1.0 at first, the clamped argument after setFeedback, and left alone
\* by processSignal and resetIntegrator.
C18_FeedbackGainInRange ==
    /\ Leq(Scale \div 10, anode.feedback_gain)
    /\ Leq(anode.feedback_gain, 10 * Scale)

----------------------------------------------------------------------------
(* AnalogCellularEngine.                                                   *)

\* AnalogCellularEngine(num_nodes): default units with their coordinates.
AnalogCellularEngine(num_nodes) ==
    [k \in 1..num_nodes |->
        LET i == k - 1 IN
        [AnalogUniversalNode EXCEPT !.x = i % 10, !.y = (i \div 10) % 10,
                                    !.z = i \div 100, !.node_id = i % Limb]]

\* control of unit i in pass pass:
\* control_pattern + sin((i + pass) * 0.1) * 0.3.
PassControl(control_pattern, i, pass) ==
    control_pattern + (SinTenths(i + pass) * 3) \div 10

\* One round of the spectral loop, as bounds: output gains
\* sin(..) * 0.001, within one unit of 1/Scale either way, and is scaled by
\* 1 + cos(spec * 0.05) * 0.001, a factor in [1.0005, 1.001] for spec 0..19.
SpectralRound(b) ==
    LET l == b.lo - 1
        h == b.hi + 1
    IN  [lo |-> IF l >= 0 THEN l + (l \div 2000) ELSE l + (l \div 1000),
         hi |-> IF h >= 0 THEN h - ((-h) \div 1000) ELSE h - ((-h) \div 2000)]

\* The twenty rounds of the spectral loop on an output: the bounds on what
\* is added to total_output.
RECURSIVE Spectral(_, _)
Spectral(b, spec) == IF spec = 20 THEN b ELSE Spectral(SpectralRound(b), spec + 1)

\* One pass of one unit: processSignal, the spectral loop, and
\* total_output += output, on the bounds.
PassOnce(n, i, pass, input_signal, control_pattern, sum) ==
    LET m == ProcessSignal(n, input_signal,
                           PassControl(control_pattern, i, pass))
        o == Spectral([lo |-> m.current_output, hi |-> m.current_output], 0)
    IN  [node |-> m,
         sum |-> [lo |-> FAdd(sum.lo, o.lo), hi |-> FAdd(sum.hi, o.hi)]]

\* A wave that runs one pass on each unit.
PassesOne(n, i, pass, input_signal, control_pattern, sum) ==
    PassOnce(n, i, 0, input_signal, control_pattern, sum)

\* The ten passes of one unit from pass pass on: the unit after them and
\* total_output (its bounds) with the passes' outputs added in turn.
RECURSIVE Passes(_, _, _, _, _, _)
Passes(n, i, pass, input_signal, control_pattern, sum) ==
    IF pass = 10 THEN [node |-> n, sum |-> sum]
    ELSE CHOOSE w \in
             {Passes(r.node, i, pass + 1, input_signal, control_pattern, r.sum) :
                 r \in {PassOnce(n, i, pass, input_signal, control_pattern, sum)}} :
             TRUE

\* The loop of processSignalWave run by one thread: unit after unit, every
\* pass's output added to total_output.
RECURSIVE SignalLoop(_, _, _, _, _)
SignalLoop(ns, k, input_signal, control_pattern, total_output) ==
    IF k > Len(ns) THEN [nodes |-> ns, total_output |-> total_output]
    ELSE CHOOSE w \in
             {SignalLoop([ns EXCEPT ![k] = r.node], k + 1, input_signal,
                         control_pattern, r.sum) :
                 r \in {Passes(ns[k], k - 1, 0, input_signal, control_pattern,
                               total_output)}} : TRUE

\* processSignalWave(input_signal, control_pattern): the units after the
\* wave, the divisor of the final division and the bounds on the double
\* returned; 0.0 / 0.0 is NaN.
ProcessSignalWave(ns, input_signal, control_pattern) ==
    LET w == SignalLoop(ns, 1, input_signal, control_pattern, [lo |-> 0, hi |-> 0])
        d == Len(ns) * 10
    IN  [nodes |-> w.nodes, divisor |-> d,
         result |-> IF d = 0 THEN [nan |-> TRUE]
                    ELSE [nan |-> FALSE, lo |-> w.total_output.lo \div d,
                          hi |-> -((-w.total_output.hi) \div d)]]

\* setSystemFeedback(feedback_level).
SetSystemFeedback(ns, feedback_level) ==
    [k \in 1..Len(ns) |-> SetFeedback(ns[k], feedback_level)]

\* resetAllIntegrators().
ResetAllIntegrators(ns) == [k \in 1..Len(ns) |-> ResetIntegrator(ns[k])]

\* What an element access beyond the end of the vector may do.
OutOfBounds == {"read beyond the vector", "crash"}

\* getNode(index): nodes[index] unchecked; the outcomes of the call.
AnalogGetNode(ns, index) ==
    IF index < Len(ns) THEN {[unit |-> index + 1]}
    ELSE {[unit |-> o] : o \in OutOfBounds}

----------------------------------------------------------------------------
(* SpecAnalog: one AnalogCellularEngine under any sequence of its calls.   *)

\* Largest analog lattice.
MaxUnits == 4

\* Waves of one analog lattice a behaviour may hold.
MaxWaves == 2

\* The (input_signal, control_pattern) pairs of a wave: (1.0, 1.0),
\* (0.5, 0.0), (-1.0, -1.0).
WaveSignals == {<<Scale, Scale>>, <<Scale \div 2, 0>>, <<-Scale, -Scale>>}

\* Feedback levels of setSystemFeedback: 0.5, 20.0.
SystemFeedbackLevels == {Scale \div 2, 20 * Scale}

InitAnalog ==
    /\ \E num_nodes \in 0..MaxUnits : anodes = AnalogCellularEngine(num_nodes)
    /\ aret = NoCall
    /\ NodeIdle /\ EngineIdle /\ SignalIdle /\ DriverIdle /\ RestIdle

AnaProcessSignalWave ==
    \E a \in WaveSignals :
        /\ \A k \in 1..Len(anodes) : anodes[k].operation_count < 10 * MaxWaves
        /\ \E w \in {ProcessSignalWave(anodes, a[1], a[2])} :
              /\ anodes' = w.nodes
              /\ aret' = [op |-> "processSignalWave",
                          input_signal |-> a[1], control_pattern |-> a[2],
                          fresh |-> (anodes = AnalogCellularEngine(Len(anodes))),
                          divisor |-> w.divisor, result |-> w.result]
        /\ UNCHANGED <<nodeVars, engineVars, signalVars, driverVars, restVars>>

AnaSetSystemFeedback ==
    \E feedback_level \in SystemFeedbackLevels :
        /\ anodes' = SetSystemFeedback(anodes, feedback_level)
        /\ aret' = [op |-> "setSystemFeedback", feedback_level |-> feedback_level]
        /\ UNCHANGED <<nodeVars, engineVars, signalVars, driverVars, restVars>>

AnaResetAllIntegrators ==
    /\ anodes' = ResetAllIntegrators(anodes)
    /\ aret' = [op |-> "resetAllIntegrators"]
    /\ UNCHANGED <<nodeVars, engineVars, signalVars, driverVars, restVars>>

AnaGetNode ==
    \E index \in 0..(MaxUnits + 1) :
        \E r \in AnalogGetNode(anodes, index) :
            /\ aret' = [op |-> "getNode", index |-> index, result |-> r.unit]
            /\ UNCHANGED <<anodes, nodeVars, engineVars, signalVars, driverVars, restVars>>

NextAnalog ==
    \/ AnaProcessSignalWave
    \/ AnaSetSystemFeedback
    \/ AnaResetAllIntegrators
    \/ AnaGetNode

SpecAnalog == InitAnalog /\ [][NextAnalog]_vars

----------------------------------------------------------------------------
(* Claims about AnalogCellularEngine, checked under SpecAnalog.            *)

\* A lattice of 4 units, as constructed, has run the wave (1.0, 1.0).
FirstWaveOfFour ==
    /\ aret.op = "processSignalWave"
    /\ aret.fresh
    /\ aret.input_signal = 1000
    /\ aret.control_pattern = 1000
    /\ Len(anodes) = 4

\* C5 as claimed: on a freshly built lattice of 4 units in Integrator mode
\* (dt 0.1, gain 1.0) one wave with input 1.0 and control 1.0 leaves every
\* accumulator at 0.1 and returns an average of 0.1.
C5_OneWaveLeavesTenth ==
    FirstWaveOfFour =>
        /\ \A k \in 1..Len(anodes) : anodes[k].integrator_state = 100
        /\ aret.result.nan = FALSE
        /\ aret.result.lo <= 100
        /\ 100 <= aret.result.hi

\* C5 as amended: that wave runs ten integrating passes on every unit, so it
\* leaves every accumulator, and every unit's output, at 1.0 (ten times 0.1)
\* and returns an average between 0.5 and 0.6.
C5_OneWaveRunsTenPasses ==
    FirstWaveOfFour =>
        /\ \A k \in 1..Len(anodes) :
              /\ anodes[k].integrator_state = 1000
              /\ anodes[k].current_output = 1000
              /\ anodes[k].previous_input = 0
              /\ anodes[k].feedback_gain = 1000
              /\ anodes[k].operation_count = 10
        /\ aret.result.nan = FALSE
        /\ 500 <= aret.result.lo
        /\ aret.result.hi <= 600

\* The first wave (1.0, 1.0) of a fresh lattice of 4 units has returned.
C5_Witness ==
    /\ FirstWaveOfFour
    /\ aret.divisor = 40
    /\ anodes[4].integrator_state > 0

\* C7: the wave on a lattice with zero units returns 0.0 and divides by no
\* unit count, in both engines (executeWave and processSignalWave).
C7_EmptyWaveReturnsZero ==
    /\ (eret.op = "executeWave" /\ nodes = <<>>) => eret.result = 0
    /\ (aret.op = "processSignalWave" /\ anodes = <<>>) =>
          /\ aret.result = [nan |-> FALSE, lo |-> 0, hi |-> 0]
          /\ aret.divisor # 0

\* C8: getNode with an index >= the unit count reports a lookup failure and
\* reads no element outside the unit sequence, in both engines.
C8_OutOfRangeReportsFailure ==
    /\ (eret.op = "getNode" /\ eret.index >= Len(nodes)) =>
          eret.result = "nullptr"
    /\ (aret.op = "getNode" /\ aret.index >= Len(anodes)) =>
          aret.result \notin OutOfBounds

----------------------------------------------------------------------------
(* SpecDriver: the global g_engine under its callers.  A build links one   *)
(* main: the standalone main, which runs run_standalone_engine, or the     *)
(* benchmark, whose loop calls minimal_computation_test again and again.   *)
(* Both run on the one thread of the program.  sweepAt and waveAt are the  *)
(* positions of the loops of performRoleSwitching and executeWave: unit k  *)
(* is being switched (executed) while sweepAt (waveAt) is k, and the call  *)
(* has returned when its position is back at 0.                            *)

\* g_engine.initialize(10) of run_standalone_engine.
StandaloneNodes == 10

\* for (int i = 0; i < 5; i++) of run_standalone_engine.
StandaloneIterations == 5

\* g_engine.initialize(100) of minimal_computation_test.
BenchmarkNodes == 100

\* Calls of minimal_computation_test a behaviour may hold.
MaxCalls == 2

\* Values of dis(gen), uniform in [0.1, 10.0): 0.1, 5.0.
BenchmarkInputs == {Scale \div 10, 5 * Scale}

\* A caller that goes on without waiting for the call to return.
ReturnedAtOnce(at) == TRUE

\* The statement after a call runs once the call's loop is over.
Returned(at) == at = 0

InitDriver ==
    /\ build \in {"standalone", "benchmark"}
    /\ pc = "start"
    /\ calls = 0
    /\ initialized = FALSE
    /\ sweepAt = 0
    /\ waveAt = 0
    /\ waveArgs = NoCall
    /\ nodes = <<>>
    /\ eret = NoCall
    /\ sweeps = 0
    /\ NodeIdle /\ SignalIdle /\ AnalogIdle /\ RestIdle

driverFrame == <<eret, sweeps, nodeVars, signalVars, analogVars, restVars>>

\* run_standalone_engine: g_engine.initialize(10).
DrvStandaloneStart ==
    /\ build = "standalone"
    /\ pc = "start"
    /\ nodes' = InitializeNodes(StandaloneNodes)
    /\ pc' = "loop"
    /\ UNCHANGED <<build, calls, initialized, sweepAt, waveAt, waveArgs, driverFrame>>

\* run_standalone_engine: the loop test, then g_engine.performRoleSwitching().
DrvStandaloneLoop ==
    /\ build = "standalone"
    /\ pc = "loop"
    /\ Returned(waveAt)
    /\ IF calls < StandaloneIterations
       THEN /\ sweepAt' = IF nodes = <<>> THEN 0 ELSE 1
            /\ pc' = "sweep"
       ELSE /\ sweepAt' = sweepAt
            /\ pc' = "stats"
    /\ UNCHANGED <<build, calls, initialized, nodes, waveAt, waveArgs, driverFrame>>

\* minimal_computation_test: entered by the benchmark's loop; the engine is
\* initialised on the first call; then gen() % 10 == 0 decides on a sweep.
DrvBenchmarkCall ==
    /\ build = "benchmark"
    /\ pc \in {"start", "loop"}
    /\ Returned(waveAt)
    /\ calls < MaxCalls
    /\ nodes' = IF initialized THEN nodes ELSE InitializeNodes(BenchmarkNodes)
    /\ initialized' = TRUE
    /\ \E switching \in BOOLEAN :
          sweepAt' = IF switching /\ nodes' # <<>> THEN 1 ELSE 0
    /\ pc' = "sweep"
    /\ UNCHANGED <<build, calls, waveAt, waveArgs, driverFrame>>

\* One round of the loop of performRoleSwitching: switchToType on unit
\* sweepAt.
DrvSweepStep ==
    /\ sweepAt # 0
    /\ \E ub \in UB :
          nodes' = [nodes EXCEPT ![sweepAt] =
                       SwitchToType(@, types[((sweepAt - 1) % 6) + 1], ub)]
    /\ sweepAt' = IF sweepAt < Len(nodes) THEN sweepAt + 1 ELSE 0
    /\ UNCHANGED <<build, pc, calls, initialized, waveAt, waveArgs, driverFrame>>

\* The statement after the sweep: g_engine.executeWave(input), with
\* input = 2.0 + i * 0.5 (standalone) or dis(gen) (benchmark).
DrvWaveCall ==
    /\ pc = "sweep"
    /\ Returned(sweepAt)
    /\ \E input \in IF build = "standalone"
                    THEN {2 * Scale + calls * (Scale \div 2)}
                    ELSE BenchmarkInputs :
          waveArgs' = [base_input |-> input, total_output |-> 0]
    /\ waveAt' = IF nodes = <<>> THEN 0 ELSE 1
    /\ pc' = "wave"
    /\ UNCHANGED <<build, calls, initialized, nodes, sweepAt, driverFrame>>

\* One round of the loop of executeWave: execute on unit waveAt.
DrvWaveStep ==
    /\ waveAt # 0
    /\ \E ub \in UB :
          /\ ExecuteFits(nodes[waveAt], NodeInput(waveArgs.base_input, waveAt - 1), ub)
          /\ nodes' = [nodes EXCEPT ![waveAt] =
                          Execute(@, NodeInput(waveArgs.base_input, waveAt - 1), ub)]
    /\ waveArgs' = [waveArgs EXCEPT !.total_output = @ + nodes'[waveAt].value]
    /\ waveAt' = IF waveAt < Len(nodes) THEN waveAt + 1 ELSE 0
    /\ UNCHANGED <<build, pc, calls, initialized, sweepAt, driverFrame>>

\* The wave has returned: results.push_back(output) and i++ (standalone),
\* or the end of minimal_computation_test (benchmark).
DrvWaveDone ==
    /\ pc = "wave"
    /\ Returned(waveAt)
    /\ calls' = calls + 1
    /\ pc' = "loop"
    /\ UNCHANGED <<build, initialized, nodes, sweepAt, waveAt, waveArgs, driverFrame>>

\* run_standalone_engine after its loop: the results are written and
\* g_engine.getPerformanceStats() prints the totals.
DrvStandaloneStats ==
    /\ build = "standalone"
    /\ pc = "stats"
    /\ pc' = "done"
    /\ UNCHANGED <<build, calls, initialized, nodes, sweepAt, waveAt, waveArgs, driverFrame>>

NextDriver ==
    \/ DrvStandaloneStart
    \/ DrvStandaloneLoop
    \/ DrvBenchmarkCall
    \/ DrvSweepStep
    \/ DrvWaveCall
    \/ DrvWaveStep
    \/ DrvWaveDone
    \/ DrvStandaloneStats

SpecDriver == InitDriver /\ [][NextDriver]_vars

----------------------------------------------------------------------------
(* Claims about the callers of g_engine, checked under SpecDriver.         *)

----------------------------------------------------------------------------
(* MemoryParallelSheet (memory_parallel_engine.h and .cpp, and the copy in *)
(* test_memory_single.cpp).  The thread that calls the sheet and the       *)
(* worker threads of executeParallelWaves take their steps one atomic      *)
(* access at a time.                                                       *)

\* static constexpr size_t MAX_NODES of memory_parallel_engine.h.
MAX_NODES == 4096

\* struct MemoryNode as constructed.
MemoryNode ==
    [value |-> 0, computed |-> FALSE, nodeType |-> 0, params |-> <<0, 0, 0, 0>>]

\* The value compute_parallel stores: amplifier, integrator, summer; a node
\* of any other type keeps its value.
ComputeValue(n) ==
    CASE n.nodeType = 0 -> Mul(n.params[1], n.params[2])
      [] n.nodeType = 1 -> n.value + Mul(n.params[1], n.params[2])
      [] n.nodeType = 2 -> n.params[1] + n.params[2] + n.params[3]
      [] OTHER -> n.value

\* The parameters createTestCircuit gives node i: 1.0 + i * 0.1 and
\* 2.0 + i * 0.05.
TestParams(i) ==
    <<Scale + i * (Scale \div 10), 2 * Scale + i * (Scale \div 20), 0, 0>>

\* A join that does not wait for the thread.
JoinReturnsAtOnce(t) == TRUE

\* worker.join() returns once the thread has finished.
JoinReturns(t) == t.at = "done"

\* A worker's loop whose index does not advance.
NextIndexStays(t) == t.i

\* A worker's loop that steps to the next node: i += 1.
NextIndexByOne(t) == t.i + 1

\* The next index of a worker's loop: i += numCores.
NextIndex(t) == t.i + t.numCores

----------------------------------------------------------------------------
(* SpecSheet: one MemoryParallelSheet, its caller and its workers.         *)

\* Largest value std::thread::hardware_concurrency() reports; 0 is the
\* value of a platform that cannot tell.
MaxCores == 2

\* Nodes allocated in one sheet.
MaxSheetNodes == 3

\* executeParallelWaves calls on one sheet.
MaxSheetWaves == 2

\* The node types allocateNode is called with.
SheetTypes == {0, 1, 2}

\* The caller outside a wave, on a platform that reports cores.
CallerIdle(cores, waves) ==
    [at |-> "idle", cores |-> cores, numCores |-> 0, core |-> 0, join |-> 0,
     waves |-> waves]

InitSheet ==
    /\ sheetNodes = <<>>
    /\ nodeCount = 0
    /\ workers = <<>>
    /\ threads = <<>>
    /\ \E cores \in 0..MaxCores : caller = CallerIdle(cores, 0)
    /\ late = FALSE
    /\ NodeIdle /\ EngineIdle /\ SignalIdle /\ AnalogIdle /\ DriverIdle
    /\ OmpIdle /\ BuildIdle /\ SweepIdle /\ BridgeIdle

sheetFrame == <<nodeVars, engineVars, signalVars, analogVars, driverVars, ompVars,
                buildVars, sweepVars, bridgeVars>>

\* One round of createTestCircuit: allocateNode(type), then the parameters
\* of the node returned.
ShAllocateNode ==
    \E type \in SheetTypes :
        /\ caller.at = "idle"
        /\ nodeCount < MaxSheetNodes
        /\ nodeCount' = nodeCount + 1
        /\ sheetNodes' =
              IF nodeCount >= MAX_NODES THEN sheetNodes
              ELSE Append(sheetNodes,
                          [MemoryNode EXCEPT !.nodeType = type,
                                             !.params = TestParams(nodeCount)])
        /\ UNCHANGED <<workers, threads, caller, late, sheetFrame>>

\* executeParallelWaves is entered: numCores = hardware_concurrency().
ShExecuteParallelWaves ==
    /\ caller.at = "idle"
    /\ caller.waves < MaxSheetWaves
    /\ caller' = [caller EXCEPT !.at = "launch", !.numCores = caller.cores,
                                !.core = 0]
    /\ UNCHANGED <<sheetNodes, nodeCount, workers, threads, late, sheetFrame>>

\* One round of the launch loop: workers.emplace_back(lambda) starts the
\* thread of core.
ShLaunch ==
    /\ caller.at = "launch"
    /\ caller.core < caller.numCores
    /\ threads' = Append(threads, [core |-> caller.core,
                                   numCores |-> caller.numCores,
                                   i |-> caller.core, at |-> "test"])
    /\ workers' = Append(workers, Len(threads) + 1)
    /\ caller' = [caller EXCEPT !.core = @ + 1]
    /\ UNCHANGED <<sheetNodes, nodeCount, late, sheetFrame>>

\* The launch loop is over; the join loop starts at the first worker.
ShLaunched ==
    /\ caller.at = "launch"
    /\ caller.core = caller.numCores
    /\ caller' = [caller EXCEPT !.at = "join", !.join = 1]
    /\ UNCHANGED <<sheetNodes, nodeCount, workers, threads, late, sheetFrame>>

\* One round of the join loop: worker.join().
ShJoin ==
    /\ caller.at = "join"
    /\ caller.join <= Len(workers)
    /\ JoinReturns(threads[workers[caller.join]])
    /\ caller' = [caller EXCEPT !.join = @ + 1]
    /\ UNCHANGED <<sheetNodes, nodeCount, workers, threads, late, sheetFrame>>

\* workers.clear(), and executeParallelWaves returns.
ShClear ==
    /\ caller.at = "join"
    /\ caller.join > Len(workers)
    /\ workers' = <<>>
    /\ caller' = CallerIdle(caller.cores, caller.waves + 1)
    /\ UNCHANGED <<sheetNodes, nodeCount, threads, late, sheetFrame>>

\* A worker's loop test: i < nodeCount.load().
ShWorkerTest ==
    \E t \in DOMAIN threads :
        /\ threads[t].at = "test"
        /\ threads' = [threads EXCEPT ![t].at =
                          IF threads[t].i < nodeCount THEN "check" ELSE "done"]
        /\ UNCHANGED <<sheetNodes, nodeCount, workers, caller, late, sheetFrame>>

\* A worker's if (!nodes[i].computed.load()).
ShWorkerCheck ==
    \E t \in DOMAIN threads :
        /\ threads[t].at = "check"
        /\ threads' = IF sheetNodes[threads[t].i + 1].computed
                      THEN [threads EXCEPT ![t].at = "test",
                                           ![t].i = NextIndex(threads[t])]
                      ELSE [threads EXCEPT ![t].at = "compute"]
        /\ UNCHANGED <<sheetNodes, nodeCount, workers, caller, late, sheetFrame>>

\* compute_parallel, its value.store.
ShWorkerCompute ==
    \E t \in DOMAIN threads :
        /\ threads[t].at = "compute"
        /\ sheetNodes' = [sheetNodes EXCEPT ![threads[t].i + 1].value =
                             ComputeValue(sheetNodes[threads[t].i + 1])]
        /\ threads' = [threads EXCEPT ![t].at = "mark"]
        /\ late' = (late \/ caller.at = "idle")
        /\ UNCHANGED <<nodeCount, workers, caller, sheetFrame>>

\* compute_parallel, its computed.store(true); then i += numCores.
ShWorkerMark ==
    \E t \in DOMAIN threads :
        /\ threads[t].at = "mark"
        /\ sheetNodes' = [sheetNodes EXCEPT ![threads[t].i + 1].computed = TRUE]
        /\ threads' = [threads EXCEPT ![t].at = "test",
                                      ![t].i = NextIndex(threads[t])]
        /\ late' = (late \/ caller.at = "idle")
        /\ UNCHANGED <<nodeCount, workers, caller, sheetFrame>>

NextSheet ==
    \/ ShAllocateNode
    \/ ShExecuteParallelWaves
    \/ ShLaunch
    \/ ShLaunched
    \/ ShJoin
    \/ ShClear
    \/ ShWorkerTest
    \/ ShWorkerCheck
    \/ ShWorkerCompute
    \/ ShWorkerMark

SpecSheet == InitSheet /\ [][NextSheet]_vars

\* The steps of a running wave: the caller's loops and the workers' loops.
WaveStep ==
    \/ ShLaunch
    \/ ShLaunched
    \/ ShJoin
    \/ ShClear
    \/ ShWorkerTest
    \/ ShWorkerCheck
    \/ ShWorkerCompute
    \/ ShWorkerMark

\* executeParallelWaves calls on one sheet under FairSheet.
MaxFairWaves == 1

\* The steps of SpecSheet, with at most MaxFairWaves waves started.
NextFairSheet ==
    /\ NextSheet
    /\ (caller.at = "idle" /\ caller'.at = "launch") => caller.waves < MaxFairWaves

\* The sheet under a scheduler that lets a thread that can run take a step.
FairSheet == InitSheet /\ [][NextFairSheet]_vars /\ WF_vars(WaveStep)

----------------------------------------------------------------------------
(* Claims about MemoryParallelSheet, checked under SpecSheet.              *)

\* C11: a wave is a synchronous barrier: when executeParallelWaves has
\* returned, every worker it launched has finished, the worker list is
\* empty, and no worker ever writes a node while no wave call is running.
C11_WaveIsBarrier ==
    /\ caller.at = "idle" =>
          /\ workers = <<>>
          /\ \A t \in DOMAIN threads : threads[t].at = "done"
    /\ ~late

\* A wave on two cores has returned after its workers computed three nodes.
C11_Witness ==
    /\ caller.at = "idle"
    /\ caller.waves = 1
    /\ Len(threads) = 2
    /\ Len(sheetNodes) = 3
    /\ \A k \in 1..3 : sheetNodes[k].computed

\* C24: during one wave no node is processed by more than one worker:
\* worker c handles exactly the indices i with i mod numCores = c, so the
\* index sets of distinct workers are disjoint and no two workers ever write
\* the same node.
C24_WorkersDisjoint ==
    /\ \A t \in DOMAIN threads :
          threads[t].i % threads[t].numCores = threads[t].core
    /\ \A t, u \in DOMAIN threads :
          (t # u /\ threads[t].at # "done" /\ threads[u].at # "done") =>
             /\ threads[t].numCores = threads[u].numCores
             /\ threads[t].core # threads[u].core
             /\ threads[t].i # threads[u].i

\* Both workers of a wave on two cores are inside compute_parallel at once:
\* worker 0 on node 2, its second node, and worker 1 on node 1.
C24_Witness ==
    /\ Len(threads) = 2
    /\ threads[1].at = "compute" /\ threads[1].core = 0 /\ threads[1].i = 2
    /\ threads[2].at = "mark" /\ threads[2].core = 1 /\ threads[2].i = 1
    /\ sheetNodes[1].computed

\* C25: every wave call eventually returns: under fair scheduling each
\* worker's strided loop over the node indices finishes and
\* executeParallelWaves completes its joins, for every node count and every
\* worker count.
C25_WaveReturns ==
    /\ (caller.at # "idle") ~> (caller.at = "idle")
    /\ (\E t \in DOMAIN threads : threads[t].at # "done")
          ~> (\A t \in DOMAIN threads : threads[t].at = "done")

\* A wave over three nodes on two cores has returned: both workers have run
\* their loops to the end.
C25_Witness ==
    /\ caller.at = "idle"
    /\ caller.waves = 1
    /\ caller.cores = 2
    /\ nodeCount = 3
    /\ Len(threads) = 2
    /\ \A t \in 1..2 : threads[t].at = "done" /\ threads[t].i >= nodeCount

\* The value a node holds after its one compute_parallel: the formula of its
\* type on its parameters (the integrator adds to the initial 0.0).
TypeFormula(n) ==
    CASE n.nodeType = 0 -> Mul(n.params[1], n.params[2])
      [] n.nodeType = 1 -> 0 + Mul(n.params[1], n.params[2])
      [] n.nodeType = 2 -> n.params[1] + n.params[2] + n.params[3]

\* C29: when executeParallelWaves returns, every allocated node has computed
\* = true and holds the value of its type's formula, for every worker count
\* the platform may report, 0 included; a node already marked computed is
\* never recomputed by a later wave.
C29_WaveComputesAll ==
    [][/\ (caller.at = "join" /\ caller'.at = "idle") =>
             \A k \in 1..Len(sheetNodes') :
                /\ sheetNodes'[k].computed
                /\ sheetNodes'[k].value = TypeFormula(sheetNodes'[k])
       /\ \A k \in 1..Len(sheetNodes) :
             sheetNodes[k].computed => sheetNodes'[k] = sheetNodes[k]
      ]_vars

----------------------------------------------------------------------------
(* SpecAllocate: one MemoryParallelSheet around its capacity.  The sheet   *)
(* starts as createTestCircuit leaves it, empty or nearly full, and is     *)
(* then called from one thread; a wave is taken as one step.               *)

\* The nodes createTestCircuit(numNodes) leaves, numNodes <= MAX_NODES:
\* amplifiers with params[0] = 1.0 + i * 0.1 and params[1] = 2.0 + i * 0.05.
TestCircuit(numNodes) ==
    [k \in 1..numNodes |->
        [MemoryNode EXCEPT !.nodeType = 0, !.params = TestParams(k - 1)]]

\* The node counts the sheet starts with.
CircuitSizes == {0, 1, MAX_NODES - 1}

\* allocateNode calls made on the sheet after its construction.
MaxAllocations == 3

\* What the caller has seen: the last call, the calls of allocateNode made
\* (made) and those that returned a node (nonnull), the index of the node
\* returned (found, index), what getNodeCount returned (count), and the
\* largest index a worker of the last wave used (top; -1 for none).
Sheet(numNodes) ==
    [op |-> "createTestCircuit", made |-> 0, nonnull |-> numNodes,
     found |-> FALSE, index |-> 0, count |-> 0, top |-> -1]

InitAllocate ==
    /\ \E numNodes \in CircuitSizes :
          /\ sheetNodes = TestCircuit(numNodes)
          /\ nodeCount = numNodes
          /\ caller = Sheet(numNodes)
    /\ workers = <<>>
    /\ threads = <<>>
    /\ late = FALSE
    /\ NodeIdle /\ EngineIdle /\ SignalIdle /\ AnalogIdle /\ DriverIdle
    /\ OmpIdle /\ BuildIdle /\ SweepIdle /\ BridgeIdle

\* allocateNode(type): index = nodeCount.fetch_add(1); nullptr when index >=
\* MAX_NODES, else nodes[index].nodeType = type and &nodes[index].
AlAllocateNode ==
    \E type \in SheetTypes :
        LET index == nodeCount IN
        /\ caller.made < MaxAllocations
        /\ nodeCount' = nodeCount + 1
        /\ sheetNodes' =
              IF index >= MAX_NODES THEN sheetNodes
              ELSE Append(sheetNodes, [MemoryNode EXCEPT !.nodeType = type])
        /\ caller' = [caller EXCEPT !.op = "allocateNode",
                                    !.made = @ + 1,
                                    !.nonnull = IF index >= MAX_NODES THEN @ ELSE @ + 1,
                                    !.found = (index < MAX_NODES),
                                    !.index = index]
        /\ UNCHANGED <<workers, threads, late, sheetFrame>>

\* getNodeCount(): nodeCount.load().
AlGetNodeCount ==
    /\ caller' = [caller EXCEPT !.op = "getNodeCount", !.count = nodeCount]
    /\ UNCHANGED <<sheetNodes, nodeCount, workers, threads, late, sheetFrame>>

\* executeParallelWaves() from call to return on a platform that reports
\* numCores cores: with a worker running, every index below nodeCount is
\* used, and the nodes of the array not yet computed are computed.
AlExecuteParallelWaves ==
    \E numCores \in 0..MaxCores :
        /\ sheetNodes' =
              IF numCores = 0 THEN sheetNodes
              ELSE [k \in 1..Len(sheetNodes) |->
                       IF sheetNodes[k].computed THEN sheetNodes[k]
                       ELSE [sheetNodes[k] EXCEPT
                                !.value = ComputeValue(sheetNodes[k]),
                                !.computed = TRUE]]
        /\ caller' = [caller EXCEPT !.op = "executeParallelWaves",
                                    !.top = IF numCores = 0 THEN -1
                                            ELSE nodeCount - 1]
        /\ UNCHANGED <<nodeCount, workers, threads, late, sheetFrame>>

NextAllocate == AlAllocateNode \/ AlGetNodeCount \/ AlExecuteParallelWaves

SpecAllocate == InitAllocate /\ [][NextAllocate]_vars

\* C28: the node count never exceeds MAX_NODES: after any sequence of
\* allocateNode calls getNodeCount equals the number of calls that returned
\* a node, a successful call returns a node no earlier call returned, and no
\* worker of executeParallelWaves indexes a node at or beyond MAX_NODES.
C28_CountWithinCapacity ==
    /\ nodeCount <= MAX_NODES
    /\ nodeCount = caller.nonnull
    /\ caller.op = "getNodeCount" => caller.count = caller.nonnull
    /\ (caller.op = "allocateNode" /\ caller.found) =>
          /\ caller.index = Len(sheetNodes) - 1
          /\ caller.index < MAX_NODES
    /\ caller.op = "executeParallelWaves" => caller.top < MAX_NODES

----------------------------------------------------------------------------
(* The parallel loop of AnalogCellularEngine::processSignalWave:           *)
(* #pragma omp parallel for reduction(+:total_output) schedule(dynamic, 2) *)
(* A team of threads takes chunks of two consecutive units, first come     *)
(* first served; every thread adds the outputs of its units to a private   *)
(* total_output that starts at 0.0; at the end every thread adds its       *)
(* private copy to the shared total_output, in no fixed order, and the     *)
(* loop's implicit barrier lets the caller go on once all have done so.    *)

\* The chunk size of schedule(dynamic, 2) with the clause misread as
\* chunks that start one unit apart.
NextChunkOverlapping(next) == next + 1

\* The unit the next chunk of schedule(dynamic, 2) starts at.
NextChunk(next) == next + 2

\* The last unit of the chunk that starts at unit first.
ChunkEnd(first, size) == IF first + 1 <= size THEN first + 1 ELSE size

Zero == [lo |-> 0, hi |-> 0]

\* The combiner of reduction(+:total_output), on the bounds.
Combine(total_output, private) ==
    [lo |-> FAdd(total_output.lo, private.lo),
     hi |-> FAdd(total_output.hi, private.hi)]

\* The barrier at the end of the parallel loop.
AtBarrier(tm) == \A t \in DOMAIN tm : tm[t].at = "done"

----------------------------------------------------------------------------
(* SpecOmp: one AnalogCellularEngine whose waves run on a team of threads. *)

\* Largest team of threads (OMP_NUM_THREADS).
MaxThreads == 2

\* Waves a team runs on one lattice.
MaxTeamWaves == 1

OmpOutside(num_threads) ==
    [at |-> "outside", threads |-> num_threads, next |-> 0, total_output |-> Zero,
     before |-> <<>>, input_signal |-> 0, control_pattern |-> 0, waves |-> 0]

InitOmp ==
    /\ \E num_nodes \in 0..MaxUnits : anodes = AnalogCellularEngine(num_nodes)
    /\ aret = NoCall
    /\ \E num_threads \in 1..MaxThreads : omp = OmpOutside(num_threads)
    /\ team = <<>>
    /\ NodeIdle /\ EngineIdle /\ SignalIdle /\ DriverIdle /\ SheetIdle
    /\ BuildIdle /\ SweepIdle /\ BridgeIdle

ompFrame == <<nodeVars, engineVars, signalVars, driverVars, sheetVars, buildVars,
              sweepVars, bridgeVars>>

\* processSignalWave is entered and the team starts the loop.
OmpProcessSignalWave ==
    \E a \in WaveSignals :
        /\ omp.at = "outside"
        /\ omp.waves < MaxTeamWaves
        /\ omp' = [omp EXCEPT !.at = "parallel", !.next = 1,
                              !.total_output = Zero, !.before = anodes,
                              !.input_signal = a[1], !.control_pattern = a[2]]
        /\ team' = [t \in 1..omp.threads |->
                       [at |-> "grab", unit |-> 0, last |-> 0,
                        total_output |-> Zero]]
        /\ UNCHANGED <<anodes, aret, ompFrame>>

\* A thread asks for its next chunk; with none left it goes to the reduction.
OmpGrab ==
    \E t \in DOMAIN team :
        /\ omp.at = "parallel"
        /\ team[t].at = "grab"
        /\ IF omp.next <= Len(anodes)
           THEN /\ team' = [team EXCEPT ![t].at = "run",
                                        ![t].unit = omp.next,
                                        ![t].last = ChunkEnd(omp.next, Len(anodes))]
                /\ omp' = [omp EXCEPT !.next = NextChunk(omp.next)]
           ELSE /\ team' = [team EXCEPT ![t].at = "reduce"]
                /\ omp' = omp
        /\ UNCHANGED <<anodes, aret, ompFrame>>

\* A thread runs the loop body on a unit of its chunk: the ten passes, every
\* output added to its private total_output.
OmpRunUnit ==
    \E t \in DOMAIN team :
        /\ omp.at = "parallel"
        /\ team[t].at = "run"
        /\ \E r \in {Passes(anodes[team[t].unit], team[t].unit - 1, 0,
                            omp.input_signal, omp.control_pattern,
                            team[t].total_output)} :
              /\ anodes' = [anodes EXCEPT ![team[t].unit] = r.node]
              /\ team' = IF team[t].unit < team[t].last
                         THEN [team EXCEPT ![t].unit = @ + 1,
                                           ![t].total_output = r.sum]
                         ELSE [team EXCEPT ![t].at = "grab",
                                           ![t].total_output = r.sum]
        /\ UNCHANGED <<omp, aret, ompFrame>>

\* A thread adds its private copy to the shared total_output.
OmpReduce ==
    \E t \in DOMAIN team :
        /\ omp.at = "parallel"
        /\ team[t].at = "reduce"
        /\ omp' = [omp EXCEPT !.total_output = Combine(@, team[t].total_output)]
        /\ team' = [team EXCEPT ![t].at = "done"]
        /\ UNCHANGED <<anodes, aret, ompFrame>>

\* Past the barrier: return total_output / (nodes.size() * 10.0).
OmpReturn ==
    /\ omp.at = "parallel"
    /\ AtBarrier(team)
    /\ LET d == Len(anodes) * 10 IN
       aret' = [op |-> "processSignalWave",
                input_signal |-> omp.input_signal,
                control_pattern |-> omp.control_pattern,
                fresh |-> (omp.before = AnalogCellularEngine(Len(anodes))),
                divisor |-> d,
                result |-> IF d = 0 THEN [nan |-> TRUE]
                           ELSE [nan |-> FALSE,
                                 lo |-> omp.total_output.lo \div d,
                                 hi |-> -((-omp.total_output.hi) \div d)]]
    /\ omp' = [omp EXCEPT !.at = "outside", !.waves = @ + 1]
    /\ team' = <<>>
    /\ UNCHANGED <<anodes, ompFrame>>

NextOmp ==
    \/ OmpProcessSignalWave
    \/ OmpGrab
    \/ OmpRunUnit
    \/ OmpReduce
    \/ OmpReturn

SpecOmp == InitOmp /\ [][NextOmp]_vars

----------------------------------------------------------------------------
(* Claims about the parallel wave, checked under SpecOmp.                  *)

\* What the wave that has just returned gives when one thread runs it.
OneThread == ProcessSignalWave(omp.before, omp.input_signal, omp.control_pattern)

WaveReturned == omp.at = "outside" /\ aret.op = "processSignalWave"

\* C12 as claimed: the average a wave returns and the unit states it leaves
\* are the same for every assignment of units to threads and every order in
\* which the threads run: they are those of the run on one thread.
C12_SameAverageAndStates ==
    WaveReturned =>
        /\ anodes = OneThread.nodes
        /\ aret.result = OneThread.result

\* The spacing of the doubles at the size of the sum behind an average.
SumQuantum(result, divisor) ==
    Quantum((Abs(result.lo) + Abs(result.hi)) * divisor, 1)

\* Two averages differ by no more than the roundings of their sums explain:
\* two spacings of the doubles at the size of the sum.
Close(a, b, divisor) ==
    IF a.nan \/ b.nan THEN a = b
    ELSE /\ Abs(a.lo - b.lo) <= 2 * SumQuantum(b, divisor)
         /\ Abs(a.hi - b.hi) <= 2 * SumQuantum(b, divisor)

\* C12 as amended: for every assignment of units to threads and every order
\* in which the threads run, a wave leaves the unit states of the run on one
\* thread, and returns that run's average up to the rounding of the sum,
\* which adds the outputs in the order the assignment gives.
C12_SameStatesCloseAverage ==
    WaveReturned =>
        /\ anodes = OneThread.nodes
        /\ Close(aret.result, OneThread.result, aret.divisor)

\* A wave on four units run by two threads has returned an average that is
\* not the one the run on one thread returns.
C12_Witness ==
    /\ WaveReturned
    /\ omp.threads = 2
    /\ Len(anodes) = 4
    /\ aret.result # OneThread.result

----------------------------------------------------------------------------
(* SpecInitialize: UniversalNodeEngine::initialize on lattices as large as *)
(* the 16 bits of node_id, and getNode on the lattice it leaves.  The      *)
(* state keeps the size of the vector; the unit at index i is the unit the *)
(* loop emplaced there (the capacity is reserved, so no unit is moved, and *)
(* nothing else is called).                                                *)

\* Largest lattice initialize is called for: one unit more than 2^16.
MaxLattice == 65537

\* The node counts initialize is called with.
InitCounts == 0..MaxNodes \cup {Limb, MaxLattice}

\* The indices getNode is called with.
ProbeIndices == 0..MaxNodes \cup {Limb - 1, Limb, MaxLattice}

InitInitialize ==
    /\ inz = [size |-> 0, op |-> "none", index |-> 0, found |-> FALSE,
              unit |-> NoCall]
    /\ NodeIdle /\ EngineIdle /\ SignalIdle /\ AnalogIdle /\ DriverIdle
    /\ SheetIdle /\ OmpIdle /\ SweepIdle /\ BridgeIdle

inzFrame == <<nodeVars, engineVars, signalVars, analogVars, driverVars,
              sheetVars, ompVars, sweepVars, bridgeVars>>

\* initialize(node_count): whatever the vector held is cleared, and the
\* loop emplaces node_count units.
InzInitialize ==
    \E node_count \in InitCounts :
        /\ inz' = [size |-> node_count, op |-> "initialize", index |-> 0,
                   found |-> FALSE, unit |-> NoCall]
        /\ UNCHANGED inzFrame

\* getNode(index) on the lattice initialize left.
InzGetNode ==
    \E index \in ProbeIndices :
        /\ inz' = [inz EXCEPT !.op = "getNode", !.index = index,
                              !.found = (index < inz.size),
                              !.unit = IF index < inz.size
                                       THEN EmplacedUnit(index)
                                       ELSE NoCall]
        /\ UNCHANGED inzFrame

NextInitialize == InzInitialize \/ InzGetNode

SpecInitialize == InitInitialize /\ [][NextInitialize]_vars

\* C13: initialize(count) discards all previous units and leaves exactly
\* count units, where unit i has x = i mod 10, y = (i div 10) mod 10,
\* z = i div 100, id i, role WORKER, output 0, and switch and execution
\* counts 0.
C13_InitializeLeavesUnitI ==
    (inz.op = "getNode" /\ inz.index < inz.size) =>
        LET i == inz.index IN
        /\ inz.found
        /\ inz.unit.x = i % 10
        /\ inz.unit.y = (i \div 10) % 10
        /\ inz.unit.z = i \div 100
        /\ inz.unit.node_id = i
        /\ inz.unit.current_type = "WORKER"
        /\ inz.unit.value = 0
        /\ inz.unit.switch_count = 0
        /\ inz.unit.execution_count = 0

----------------------------------------------------------------------------
(* SpecSweep: two AnalogCellularEngine instances of one process under      *)
(* performSignalSweep.  static double time_counter is one variable of the  *)
(* process, whichever engine the function is called on.                    *)

\* Instances of AnalogCellularEngine in the process.
Instances == {1, 2}

\* Units of each instance.
MaxSweepUnits == 2

\* performSignalSweep calls on one instance.
MaxSweeps == 2

\* base_frequency of a sweep: 0.0, 100.0.
BaseFrequencies == {0, 100 * Scale}

\* An engine as constructed: its units, system_frequency 1.0 (as bounds),
\* noise_level 0.001, and the sweeps run on it so far (history).
Engine(num_nodes) ==
    [nodes |-> AnalogCellularEngine(num_nodes),
     system_frequency |-> [nan |-> FALSE, lo |-> Scale, hi |-> Scale],
     noise_level |-> 1, sweeps |-> 0]

\* std::sin(base_frequency * time_counter) with time_counter = t * 0.001, for
\* a base_frequency that is a multiple of 100.0: sin of a multiple of 0.1.
SweepInput(base_frequency, t) == SinTenths((base_frequency \div (100 * Scale)) * t)

\* std::sin(time_counter * 0.1) * 0.5 with time_counter = t * 0.001: 0.0 at
\* t = 0, and for the t of the model a positive value below 0.001, held as
\* the smallest positive value so that its sign is kept.
SweepControl(t) == IF t = 0 THEN 0 ELSE 1

\* system_frequency += result * 0.001, on the bounds; NaN stays NaN.
AddThousandth(system_frequency, result) ==
    IF system_frequency.nan \/ result.nan THEN [nan |-> TRUE]
    ELSE [nan |-> FALSE,
          lo |-> system_frequency.lo + (result.lo \div Scale),
          hi |-> system_frequency.hi - ((-result.hi) \div Scale)]

\* performSignalSweep(base_frequency) on engine e, t being time_counter after
\* its increment: the engine after the call and what its wave returned.
PerformSignalSweep(e, base_frequency, t) ==
    LET w == ProcessSignalWave(e.nodes, SweepInput(base_frequency, t),
                               SweepControl(t))
    IN  [engine |-> [e EXCEPT !.nodes = w.nodes,
                              !.system_frequency = AddThousandth(@, w.result),
                              !.sweeps = @ + 1],
         result |-> w.result]

InitSweep ==
    /\ \E num_nodes \in 0..MaxSweepUnits :
          engines = [i \in Instances |-> Engine(num_nodes)]
    /\ time_counter = 0
    /\ swret = NoCall
    /\ NodeIdle /\ EngineIdle /\ SignalIdle /\ AnalogIdle /\ DriverIdle
    /\ SheetIdle /\ OmpIdle /\ BuildIdle /\ BridgeIdle

SwPerformSignalSweep ==
    \E i \in Instances, base_frequency \in BaseFrequencies :
        /\ engines[i].sweeps < MaxSweeps
        /\ time_counter' = time_counter + 1
        /\ \E r \in {PerformSignalSweep(engines[i], base_frequency, time_counter + 1)} :
              /\ engines' = [engines EXCEPT ![i] = r.engine]
              /\ swret' = [op |-> "performSignalSweep", engine |-> i,
                           base_frequency |-> base_frequency, result |-> r.result]
        /\ UNCHANGED <<nodeVars, engineVars, signalVars, analogVars, driverVars,
                       sheetVars, ompVars, buildVars, bridgeVars>>

NextSweep == SwPerformSignalSweep

SpecSweep == InitSweep /\ [][NextSweep]_vars

\* C26: no hidden state is shared between engine instances: the effect and
\* the result of performSignalSweep on an engine depend only on that engine's
\* own state (the sweeps run on it included) and on base_frequency, whether
\* or not sweeps have been run on another engine of the process; and the
\* other engine is left as it was.
C26_SweepDependsOnOwnEngine ==
    [][swret'.op = "performSignalSweep" =>
          LET i == swret'.engine
              own == PerformSignalSweep(engines[i], swret'.base_frequency,
                                        engines[i].sweeps + 1)
          IN  /\ engines'[i] = own.engine
              /\ swret'.result = own.result
              /\ \A j \in Instances \ {i} : engines'[j] = engines[j]
      ]_vars

----------------------------------------------------------------------------
(* SpecBridge: APIBridge, its map of modules and the files it writes.      *)

\* The cellId values of the requests, in the order std::map iterates them.
CellOrder == <<"A1", "B2">>

CellIds == {CellOrder[k] : k \in 1..Len(CellOrder)}

\* moduleType of a request; only "Amplifier" is handled.
ModuleTypes == {"Amplifier", "Integrator"}

\* param (the gain) and input of a request: 0.0, 0.5, 2.0 and 0.0, 1.0, 3.0.
Params == {0, Scale \div 2, 2 * Scale}

BridgeInputs == {0, Scale, 3 * Scale}

\* Amplifier(n, g): AnalogModule(n) with output 0.0, gain g.
Amplifier(n, g) == [name |-> n, output |-> 0, gain |-> g]

\* Amplifier::processInput: output = input * gain; return output.
ProcessInput(module, input) ==
    LET output == Mul(input, module.gain)
    IN  [module |-> [module EXCEPT !.output = output], result |-> output]

InitBridge ==
    /\ modules = <<>>
    /\ cellFiles = <<>>
    /\ gridFile = NoFile
    /\ bret = NoCall
    /\ NodeIdle /\ EngineIdle /\ SignalIdle /\ AnalogIdle /\ DriverIdle
    /\ SheetIdle /\ OmpIdle /\ BuildIdle /\ SweepIdle

bridgeFrame == <<nodeVars, engineVars, signalVars, analogVars, driverVars,
                 sheetVars, ompVars, buildVars, sweepVars>>

\* processWebRequest(cellId, moduleType, param, input).
BrProcessWebRequest ==
    \E cellId \in CellIds, moduleType \in ModuleTypes,
       param \in Params, input \in BridgeInputs :
        /\ bret' = [op |-> "processWebRequest", cellId |-> cellId,
                    moduleType |-> moduleType]
        /\ IF moduleType = "Amplifier"
           THEN \E r \in {ProcessInput(Amplifier(cellId, param), input)} :
                   /\ modules' = (cellId :> r.module) @@ modules
                   /\ cellFiles' = (cellId :> [cellId |-> cellId, result |-> r.result])
                                       @@ cellFiles
           ELSE UNCHANGED <<modules, cellFiles>>
        /\ UNCHANGED gridFile
        /\ UNCHANGED bridgeFrame

\* saveGridState(): one entry per stored module, in the order of the map,
\* whose output is what processInput(0) returns.
BrSaveGridState ==
    LET Stored(c) == c \in DOMAIN modules
        ids == SelectSeq(CellOrder, Stored)
        r == [c \in DOMAIN modules |-> ProcessInput(modules[c], 0)]
    IN  /\ gridFile' = [written |-> TRUE,
                        cells |-> [k \in 1..Len(ids) |->
                                      [id |-> ids[k], output |-> r[ids[k]].result]]]
        /\ modules' = [c \in DOMAIN modules |-> r[c].module]
        /\ bret' = [op |-> "saveGridState"]
        /\ UNCHANGED cellFiles
        /\ UNCHANGED bridgeFrame

NextBridge == BrProcessWebRequest \/ BrSaveGridState

SpecBridge == InitBridge /\ [][NextBridge]_vars

\* C30: saveGridState records, for every module stored by processWebRequest,
\* the output that module last computed (the output it holds when
\* saveGridState is called), one entry per module, and leaves every module's
\* stored output as it was.
C30_SaveRecordsLastOutput ==
    [][bret'.op = "saveGridState" =>
          /\ {gridFile'.cells[k].id : k \in 1..Len(gridFile'.cells)} = DOMAIN modules
          /\ \A k \in 1..Len(gridFile'.cells) :
                gridFile'.cells[k].output = modules[gridFile'.cells[k].id].output
          /\ \A c \in DOMAIN modules : modules'[c].output = modules[c].output
      ]_vars

====
